---- MODULE Spec2Model ----
(***************************************************************************)
(* Orderbook verification engine of polymarket-avs (package                *)
(* orderbookchecker): OrderbookVerifier.VerifySnapshot and its helpers.    *)
(*                                                                         *)
(* One call of VerifySnapshot(trades, snapshot) is modelled as a state     *)
(* machine: BuildState (buildOrderbookState), then one VerifyNextTrade     *)
(* step per iteration of the loop over trades, then Return.                *)
(*                                                                         *)
(* big.Int prices and quantities are unbounded integers (Cmp is exact),    *)
(* time.Time values are integers ordered by Before.  Strings built with    *)
(* fmt.Errorf / fmt.Sprintf are records holding the format's constant text *)
(* and its arguments; the empty string is the empty sequence.              *)
(***************************************************************************)
EXTENDS Integers, Sequences, FiniteSets, TLC

\* ---------------------------------------------------------------- bounds
\* longest snapshot order list, longest trade batch, and the most orders and
\* trades one call is given together
MaxOrders == 3
MaxTrades == 2
MaxInput == 4
\* prices, quantities and timestamps range over 1..Max
MaxPrice == 2
MaxQuantity == 2
MaxTime == 2

OrderIDs == {"o1", "o2"}
TradeIDs == {"t1", "t2"}
Sides == {"buy", "sell", "hold"}

\* ---------------------------------------------------------------- types
\* type Order (UserID is never read by the verifier and is left out)
Order == [ID : OrderIDs, Side : Sides, Price : 1..MaxPrice,
          Quantity : 1..MaxTime, Timestamp : 1..MaxTime]

\* the orders a snapshot is drawn from: every buy and sell order whose posted
\* quantity equals its timestamp, and one order per ID with an unrecognised
\* side (the build aborts on it before any other field is read)
OrderPool ==
    {o \in Order : IF o.Side \in {"buy", "sell"}
                   THEN o.Quantity = o.Timestamp
                   ELSE o.Price = 1 /\ o.Quantity = 1 /\ o.Timestamp = 1}

\* type Trade (Timestamp, TxHash, BlockNumber are never read by the verifier)
Trade == [ID : TradeIDs, BuyOrderID : OrderIDs, SellOrderID : OrderIDs,
          Price : 1..MaxPrice, Quantity : 1..MaxQuantity]

\* the nil error, the nil *OrderbookState, the nil *Order, the empty string
Nil == [msg |-> "nil", detail |-> "", ids |-> <<>>, nums |-> <<>>]
NilState == [BuyOrders |-> <<>>, SellOrders |-> <<>>, isNil |-> TRUE]
EmptyString == <<>>

\* fmt.Errorf(msg ...) with the string and numeric arguments of the format
Errorf(msg, detail, ids, nums) ==
    [msg |-> msg, detail |-> detail, ids |-> ids, nums |-> nums]

\* fmt.Sprintf("<prefix> %s...: %v", id, err): never the empty string
Sprintf(prefix, id, e) == << [prefix |-> prefix, id |-> id, err |-> e] >>

\* the zero value of VerificationResult
ZeroResult == [Valid |-> FALSE, ErrorMessage |-> EmptyString, FailedTrades |-> <<>>,
               VerifiedTrades |-> 0, TotalTrades |-> 0, isNil |-> FALSE]
\* before VerifySnapshot has returned, the caller holds no result
NoResult == [ZeroResult EXCEPT !.isNil = TRUE]

\* ---------------------------------------------------------------- sorting
\* variant: the buy side is ordered by price alone
BuyLess_PriceOnly(a, b) == a.Price > b.Price

\* less function of the buy-side sort.Slice: price descending, then timestamp
BuyLess(a, b) ==
    IF a.Price = b.Price THEN a.Timestamp < b.Timestamp ELSE a.Price > b.Price

\* variant: the sell side is ordered by price alone
SellLess_PriceOnly(a, b) == a.Price < b.Price

\* less function of the sell-side sort.Slice: price ascending, then timestamp
SellLess(a, b) ==
    IF a.Price = b.Price THEN a.Timestamp < b.Timestamp ELSE a.Price < b.Price

Swap(s, i, j) == [s EXCEPT ![i] = s[j], ![j] = s[i]]

\* inner loop of insertion sort: for j := i; j > a && less(j, j-1); j-- { swap }
RECURSIVE SinkBuy(_, _)
SinkBuy(s, j) ==
    IF j > 1 /\ BuyLess(s[j], s[j - 1]) THEN SinkBuy(Swap(s, j, j - 1), j - 1) ELSE s

RECURSIVE SinkSell(_, _)
SinkSell(s, j) ==
    IF j > 1 /\ SellLess(s[j], s[j - 1]) THEN SinkSell(Swap(s, j, j - 1), j - 1) ELSE s

\* sort.Slice on a slice of at most 12 elements is an insertion sort
RECURSIVE SortBuyFrom(_, _)
SortBuyFrom(s, i) ==
    IF i > Len(s) THEN s ELSE SortBuyFrom(SinkBuy(s, i), i + 1)

RECURSIVE SortSellFrom(_, _)
SortSellFrom(s, i) ==
    IF i > Len(s) THEN s ELSE SortSellFrom(SinkSell(s, i), i + 1)

SortBuyOrders(s) == SortBuyFrom(s, 2)
SortSellOrders(s) == SortSellFrom(s, 2)

\* ---------------------------------------------------------------- buildOrderbookState
IsBuy(o) == o.Side = "buy"
IsSell(o) == o.Side = "sell"
ValidSide(o) == IsBuy(o) \/ IsSell(o)

\* index of the first order with an invalid side, 0 if there is none
FirstInvalidSide(os) ==
    IF \E k \in 1..Len(os) : ~ValidSide(os[k])
    THEN CHOOSE k \in 1..Len(os) :
             /\ ~ValidSide(os[k])
             /\ \A m \in 1..(k - 1) : ValidSide(os[m])
    ELSE 0

\* variant: an order with an unrecognised side is dropped, not reported
buildOrderbookState_DropsInvalid(os) ==
    << [BuyOrders |-> SortBuyOrders(SelectSeq(os, IsBuy)),
        SellOrders |-> SortSellOrders(SelectSeq(os, IsSell)),
        isNil |-> FALSE],
       Nil >>

\* variant: only the first order's side is checked, later orders with an
\* unrecognised side are dropped
buildOrderbookState_ChecksFirstOnly(os) ==
    IF Len(os) > 0 /\ ~ValidSide(os[1])
    THEN << NilState, Errorf("invalid order side", "", << os[1].Side >>, <<>>) >>
    ELSE << [BuyOrders |-> SortBuyOrders(SelectSeq(os, IsBuy)),
             SellOrders |-> SortSellOrders(SelectSeq(os, IsSell)),
             isNil |-> FALSE],
            Nil >>
\* buildOrderbookState: <<state, err>>
buildOrderbookState(os) ==
    LET bad == FirstInvalidSide(os) IN
    IF bad # 0
    THEN << NilState, Errorf("invalid order side", "", << os[bad].Side >>, <<>>) >>
    ELSE << [BuyOrders |-> SortBuyOrders(SelectSeq(os, IsBuy)),
             SellOrders |-> SortSellOrders(SelectSeq(os, IsSell)),
             isNil |-> FALSE],
            Nil >>

\* ---------------------------------------------------------------- verifyTrade
\* variant: the last order with that ID is taken
findOrderByID_LastMatch(orderID, os) ==
    IF \E k \in 1..Len(os) : os[k].ID = orderID
    THEN CHOOSE k \in 1..Len(os) :
             /\ os[k].ID = orderID
             /\ \A m \in (k + 1)..Len(os) : os[m].ID # orderID
    ELSE 0
\* findOrderByID: index of the first order with that ID, 0 for "order not found"
findOrderByID(orderID, os) ==
    IF \E k \in 1..Len(os) : os[k].ID = orderID
    THEN CHOOSE k \in 1..Len(os) :
             /\ os[k].ID = orderID
             /\ \A m \in 1..(k - 1) : os[m].ID # orderID
    ELSE 0

\* variant: the buy-side comparison is off by one (<= for <)
verifyPriceMatching_OffByOne(trade, buyOrder, sellOrder) ==
    IF buyOrder.Price <= trade.Price
    THEN Errorf("buy order price is less than trade price", "", <<>>,
                << buyOrder.Price, trade.Price >>)
    ELSE IF sellOrder.Price > trade.Price
    THEN Errorf("sell order price is greater than trade price", "", <<>>,
                << sellOrder.Price, trade.Price >>)
    ELSE Nil

verifyPriceMatching(trade, buyOrder, sellOrder) ==
    IF buyOrder.Price < trade.Price
    THEN Errorf("buy order price is less than trade price", "", <<>>,
                << buyOrder.Price, trade.Price >>)
    ELSE IF sellOrder.Price > trade.Price
    THEN Errorf("sell order price is greater than trade price", "", <<>>,
                << sellOrder.Price, trade.Price >>)
    ELSE Nil

\* variant: the sell order's quantity is never compared
verifyQuantityConstraints_BuyOnly(trade, buyOrder, sellOrder) ==
    IF trade.Quantity > buyOrder.Quantity
    THEN Errorf("trade quantity exceeds buy order quantity", "", <<>>,
                << trade.Quantity, buyOrder.Quantity >>)
    ELSE Nil

verifyQuantityConstraints(trade, buyOrder, sellOrder) ==
    IF trade.Quantity > buyOrder.Quantity
    THEN Errorf("trade quantity exceeds buy order quantity", "", <<>>,
                << trade.Quantity, buyOrder.Quantity >>)
    ELSE IF trade.Quantity > sellOrder.Quantity
    THEN Errorf("trade quantity exceeds sell order quantity", "", <<>>,
                << trade.Quantity, sellOrder.Quantity >>)
    ELSE Nil

\* variant: only a strictly better price gives priority
BuyHasPriority_StrictPrice(order, buyOrder) ==
    order.Price > buyOrder.Price /\ order.Timestamp < buyOrder.Timestamp

\* the test of the buy-side scan on one order ahead of the matched one
BuyHasPriority(order, buyOrder) ==
    order.Price >= buyOrder.Price /\ order.Timestamp < buyOrder.Timestamp

\* variant: only a strictly better price gives priority
SellHasPriority_StrictPrice(order, sellOrder) ==
    order.Price < sellOrder.Price /\ order.Timestamp < sellOrder.Timestamp

\* the test of the sell-side scan on one order ahead of the matched one
SellHasPriority(order, sellOrder) ==
    order.Price <= sellOrder.Price /\ order.Timestamp < sellOrder.Timestamp

\* the range loops stop at the first order carrying the matched order's ID
ScanStop(os, id) == findOrderByID(id, os)

\* first position before the stop whose order has priority, 0 if none
FirstBuyPriority(os, buyOrder) ==
    LET stop == ScanStop(os, buyOrder.ID)
        hit == {k \in 1..(stop - 1) : BuyHasPriority(os[k], buyOrder)}
    IN IF hit = {} THEN 0 ELSE CHOOSE k \in hit : \A m \in hit : k <= m

FirstSellPriority(os, sellOrder) ==
    LET stop == ScanStop(os, sellOrder.ID)
        hit == {k \in 1..(stop - 1) : SellHasPriority(os[k], sellOrder)}
    IN IF hit = {} THEN 0 ELSE CHOOSE k \in hit : \A m \in hit : k <= m

verifyTimePriority(trade, buyOrder, sellOrder, st) ==
    LET b == FirstBuyPriority(st.BuyOrders, buyOrder)
        s == FirstSellPriority(st.SellOrders, sellOrder)
    IN IF b # 0
       THEN Errorf("buy order has priority over", "",
                   << st.BuyOrders[b].ID, buyOrder.ID >>,
                   << st.BuyOrders[b].Price, buyOrder.Price,
                      st.BuyOrders[b].Timestamp, buyOrder.Timestamp >>)
       ELSE IF s # 0
       THEN Errorf("sell order has priority over", "",
                   << st.SellOrders[s].ID, sellOrder.ID >>,
                   << st.SellOrders[s].Price, sellOrder.Price,
                      st.SellOrders[s].Timestamp, sellOrder.Timestamp >>)
       ELSE Nil

\* fmt.Errorf("<stage>: %v", err)
Wrap(stage, e) == Errorf(stage, e.msg, e.ids, e.nums)

\* variant: the sell order is resolved before the buy order
verifyTrade_SellFirst(trade, st) ==
    LET bi == findOrderByID(trade.BuyOrderID, st.BuyOrders)
        si == findOrderByID(trade.SellOrderID, st.SellOrders)
    IN IF si = 0
       THEN Errorf("sell order not found", "", << trade.SellOrderID >>, <<>>)
       ELSE IF bi = 0
       THEN Errorf("buy order not found", "", << trade.BuyOrderID >>, <<>>)
       ELSE LET buyOrder == st.BuyOrders[bi]
                sellOrder == st.SellOrders[si]
                pe == verifyPriceMatching(trade, buyOrder, sellOrder)
                qe == verifyQuantityConstraints(trade, buyOrder, sellOrder)
                te == verifyTimePriority(trade, buyOrder, sellOrder, st)
            IN IF pe # Nil THEN Wrap("price matching failed", pe)
               ELSE IF qe # Nil THEN Wrap("quantity constraints failed", qe)
               ELSE IF te # Nil THEN Wrap("time priority failed", te)
               ELSE Nil

\* variant: the quantity check runs before the price check
verifyTrade_QuantityFirst(trade, st) ==
    LET bi == findOrderByID(trade.BuyOrderID, st.BuyOrders)
        si == findOrderByID(trade.SellOrderID, st.SellOrders)
    IN IF bi = 0
       THEN Errorf("buy order not found", "", << trade.BuyOrderID >>, <<>>)
       ELSE IF si = 0
       THEN Errorf("sell order not found", "", << trade.SellOrderID >>, <<>>)
       ELSE LET buyOrder == st.BuyOrders[bi]
                sellOrder == st.SellOrders[si]
                pe == verifyPriceMatching(trade, buyOrder, sellOrder)
                qe == verifyQuantityConstraints(trade, buyOrder, sellOrder)
                te == verifyTimePriority(trade, buyOrder, sellOrder, st)
            IN IF qe # Nil THEN Wrap("quantity constraints failed", qe)
               ELSE IF pe # Nil THEN Wrap("price matching failed", pe)
               ELSE IF te # Nil THEN Wrap("time priority failed", te)
               ELSE Nil
verifyTrade(trade, st) ==
    LET bi == findOrderByID(trade.BuyOrderID, st.BuyOrders)
        si == findOrderByID(trade.SellOrderID, st.SellOrders)
    IN IF bi = 0
       THEN Errorf("buy order not found", "", << trade.BuyOrderID >>, <<>>)
       ELSE IF si = 0
       THEN Errorf("sell order not found", "", << trade.SellOrderID >>, <<>>)
       ELSE LET buyOrder == st.BuyOrders[bi]
                sellOrder == st.SellOrders[si]
                pe == verifyPriceMatching(trade, buyOrder, sellOrder)
                qe == verifyQuantityConstraints(trade, buyOrder, sellOrder)
                te == verifyTimePriority(trade, buyOrder, sellOrder, st)
            IN IF pe # Nil THEN Wrap("price matching failed", pe)
               ELSE IF qe # Nil THEN Wrap("quantity constraints failed", qe)
               ELSE IF te # Nil THEN Wrap("time priority failed", te)
               ELSE Nil

\* ---------------------------------------------------------------- VerifySnapshot
VARIABLES
    orders,     \* snapshot.Orders, the caller's slice
    trades,     \* the trades argument
    pc,         \* position in VerifySnapshot: "build", "loop", "done"
    state,      \* the local state built from the snapshot
    idx,        \* number of trades the range loop has consumed
    result,     \* the local result; at "done" the returned *VerificationResult
    err,        \* at "done" the returned error
    tradeErrs   \* the value of the loop's local err in each iteration so far

\* two VerifySnapshot calls in flight, each with its own arguments and locals
VARIABLES
    calls,      \* per call: receiver, arguments, position, locals, return values
    verifiers   \* the OrderbookVerifier objects the calls are made on

\* the task worker of cmd/main.go serving one TaskRequest
VARIABLES
    request,      \* the TaskRequest: its payload as json.Unmarshal reads it
    validated,    \* ValidateTask has been called on the request and has returned
    validateErr,  \* the error ValidateTask returned
    hpc,          \* position in HandleTask: "start", "verifying", "returned"
    response,     \* the *TaskResponse HandleTask returned
    handleErr     \* the error HandleTask returned

\* the SettlementVerifier contract and the chain it runs on
VARIABLES
    settlements,            \* mapping(bytes32 => Settlement)
    challenges,             \* mapping(bytes32 => Challenge)
    operatorStakes,         \* mapping(address => uint256)
    authorizedChallengeers, \* mapping(address => bool)
    owner,                  \* Ownable._owner
    balances,               \* ether held by each account and by the contract
    blockTimestamp,         \* block.timestamp of the current block
    lastTx                  \* the receipt of the last transaction: reverted or not
\* one SnapshotPublisher, its output directory and its caller
VARIABLES
    sequenceNum,  \* sp.sequenceNum
    prevHash,     \* sp.prevHash
    files,        \* the files of sp.outputDir: name -> content
    publishLog,   \* what each PublishSnapshot call so far returned
    clock         \* the latest reading of time.Now()
\* one TaskSubmitter watching that directory, and the context of its caller
VARIABLES
    lastSequence,    \* ts.lastSequence
    ctxErr,          \* ctx.Err(): Nil until the context is cancelled or times out
    watcher,         \* where WatchAndSubmit is, and what it returned
    lastPoll,        \* what the latest checkForNewSnapshots call did
    timesProcessed   \* processSnapshot calls so far, per sequence number

engineVars == << orders, trades, pc, state, idx, result, err, tradeErrs >>
callVars == << calls, verifiers >>
workerVars == << request, validated, validateErr, hpc, response, handleErr >>
contractVars == << settlements, challenges, operatorStakes, authorizedChallengeers,
                  owner, balances, blockTimestamp, lastTx >>
publisherVars == << sequenceNum, prevHash, files, publishLog, clock >>
submitterVars == << lastSequence, ctxErr, watcher, lastPoll, timesProcessed >>
vars == << engineVars, callVars, workerVars, contractVars, publisherVars, submitterVars >>

\* what a single VerifySnapshot call, the two concurrent calls, the task
\* worker, the contract, the publisher and the task submitter each leave alone
outsideEngine == << callVars, workerVars, contractVars, publisherVars, submitterVars >>
outsideCalls == << engineVars, workerVars, contractVars, publisherVars, submitterVars >>
outsideWorker == << callVars, contractVars, publisherVars, submitterVars >>
outsideContract == << engineVars, callVars, workerVars, publisherVars, submitterVars >>
outsidePublisher == << engineVars, callVars, workerVars, contractVars, submitterVars >>
outsideSubmitter == << engineVars, callVars, workerVars, contractVars,
                       sequenceNum, prevHash, publishLog >>

\* the parts of the system a specification does not exercise
EngineIdle ==
    /\ orders = <<>>
    /\ trades = <<>>
    /\ pc = "idle"
    /\ state = NilState
    /\ idx = 0
    /\ result = NoResult
    /\ err = Nil
    /\ tradeErrs = <<>>
CallsIdle == calls = <<>> /\ verifiers = <<>>
WorkerIdle ==
    /\ request = <<>>
    /\ validated = FALSE
    /\ validateErr = <<>>
    /\ hpc = "idle"
    /\ response = <<>>
    /\ handleErr = <<>>
ContractIdle ==
    /\ settlements = <<>>
    /\ challenges = <<>>
    /\ operatorStakes = <<>>
    /\ authorizedChallengeers = <<>>
    /\ owner = <<>>
    /\ balances = <<>>
    /\ blockTimestamp = 0
    /\ lastTx = <<>>
PublisherIdle ==
    /\ sequenceNum = 0
    /\ prevHash = <<>>
    /\ files = <<>>
    /\ publishLog = <<>>
    /\ clock = 0
SubmitterIdle ==
    /\ lastSequence = 0
    /\ ctxErr = <<>>
    /\ watcher = <<>>
    /\ lastPoll = <<>>
    /\ timesProcessed = <<>>

Min(a, b) == IF a <= b THEN a ELSE b

BoundedSeq(S, n) == UNION {[1..k -> S] : k \in 0..n}

Init ==
    /\ orders \in BoundedSeq(OrderPool, MaxOrders)
    /\ trades \in BoundedSeq(Trade, Min(MaxTrades, MaxInput - Len(orders)))
    /\ pc = "build"
    /\ state = NilState
    /\ idx = 0
    /\ result = NoResult
    /\ err = Nil
    /\ tradeErrs = <<>>
    /\ CallsIdle /\ WorkerIdle /\ ContractIdle /\ PublisherIdle /\ SubmitterIdle

\* lines 30-44: build the state; on error return at once, else start the loop
BuildState ==
    /\ pc = "build"
    /\ LET built == buildOrderbookState(orders) IN
       IF built[2] # Nil
       THEN /\ result' = [ZeroResult EXCEPT
                            !.Valid = FALSE,
                            !.ErrorMessage =
                                Sprintf("failed to build orderbook state", "", built[2]),
                            !.TotalTrades = Len(trades)]
            /\ err' = built[2]
            /\ pc' = "done"
            /\ UNCHANGED state
       ELSE /\ state' = built[1]
            /\ result' = [ZeroResult EXCEPT !.Valid = TRUE, !.TotalTrades = Len(trades)]
            /\ pc' = "loop"
            /\ UNCHANGED err
    /\ UNCHANGED << orders, trades, idx, tradeErrs >>
    /\ UNCHANGED outsideEngine

\* variant: a failure is recorded but Valid is left as it was
LoopBody_KeepsValid(res, trade, e) ==
    IF e # Nil
    THEN [res EXCEPT
            !.FailedTrades = Append(@, trade.ID),
            !.ErrorMessage = IF @ = EmptyString
                             THEN Sprintf("trade failed", trade.ID, e)
                             ELSE @]
    ELSE [res EXCEPT !.VerifiedTrades = @ + 1]

\* variant: only the first failure of a batch is recorded
LoopBody_FirstFailureOnly(res, trade, e) ==
    IF e # Nil
    THEN IF res.ErrorMessage = EmptyString
         THEN [res EXCEPT
                 !.Valid = FALSE,
                 !.FailedTrades = Append(@, trade.ID),
                 !.ErrorMessage = Sprintf("trade failed", trade.ID, e)]
         ELSE [res EXCEPT !.Valid = FALSE]
    ELSE [res EXCEPT !.VerifiedTrades = @ + 1]

\* variant: a failing trade's ID is put in front of FailedTrades
LoopBody_Prepends(res, trade, e) ==
    IF e # Nil
    THEN [res EXCEPT
            !.Valid = FALSE,
            !.FailedTrades = << trade.ID >> \o @,
            !.ErrorMessage = IF @ = EmptyString
                             THEN Sprintf("trade failed", trade.ID, e)
                             ELSE @]
    ELSE [res EXCEPT !.VerifiedTrades = @ + 1]

\* variant: every failure overwrites ErrorMessage
LoopBody_OverwritesMessage(res, trade, e) ==
    IF e # Nil
    THEN [res EXCEPT
            !.Valid = FALSE,
            !.FailedTrades = Append(@, trade.ID),
            !.ErrorMessage = Sprintf("trade failed", trade.ID, e)]
    ELSE [res EXCEPT !.VerifiedTrades = @ + 1]

\* variant: a failing trade is counted as verified as well
LoopBody_CountsEveryTrade(res, trade, e) ==
    IF e # Nil
    THEN [res EXCEPT
            !.Valid = FALSE,
            !.FailedTrades = Append(@, trade.ID),
            !.VerifiedTrades = @ + 1,
            !.ErrorMessage = IF @ = EmptyString
                             THEN Sprintf("trade failed", trade.ID, e)
                             ELSE @]
    ELSE [res EXCEPT !.VerifiedTrades = @ + 1]
\* the body of one iteration of the loop over trades
LoopBody(res, trade, e) ==
    IF e # Nil
    THEN [res EXCEPT
            !.Valid = FALSE,
            !.FailedTrades = Append(@, trade.ID),
            !.ErrorMessage = IF @ = EmptyString
                             THEN Sprintf("trade failed", trade.ID, e)
                             ELSE @]
    ELSE [res EXCEPT !.VerifiedTrades = @ + 1]

\* an order book side after a fill of q against the order with that ID
Fill(os, id, q) ==
    [k \in 1..Len(os) |->
        IF os[k].ID = id THEN [os[k] EXCEPT !.Quantity = @ - q] ELSE os[k]]

\* variant: a verified trade is taken off the posted quantity of its orders,
\* so later trades are checked against what remains
VerifyNextTrade_TracksFills ==
    /\ pc = "loop"
    /\ idx < Len(trades)
    /\ LET trade == trades[idx + 1]
           e == verifyTrade(trade, state)
       IN /\ result' = LoopBody(result, trade, e)
          /\ tradeErrs' = Append(tradeErrs, e)
          /\ state' = IF e = Nil
                      THEN [state EXCEPT
                              !.BuyOrders = Fill(@, trade.BuyOrderID, trade.Quantity),
                              !.SellOrders = Fill(@, trade.SellOrderID, trade.Quantity)]
                      ELSE state
    /\ idx' = idx + 1
    /\ UNCHANGED << orders, trades, pc, err >>
    /\ UNCHANGED outsideEngine

\* lines 46-60: one iteration
VerifyNextTrade ==
    /\ pc = "loop"
    /\ idx < Len(trades)
    /\ LET trade == trades[idx + 1]
           e == verifyTrade(trade, state)
       IN /\ result' = LoopBody(result, trade, e)
          /\ tradeErrs' = Append(tradeErrs, e)
    /\ idx' = idx + 1
    /\ UNCHANGED << orders, trades, pc, state, err >>
    /\ UNCHANGED outsideEngine

\* line 68: return result, nil
Return ==
    /\ pc = "loop"
    /\ idx = Len(trades)
    /\ pc' = "done"
    /\ err' = Nil
    /\ UNCHANGED << orders, trades, state, idx, result, tradeErrs >>
    /\ UNCHANGED outsideEngine

Next == BuildState \/ VerifyNextTrade \/ Return

Spec == Init /\ [][Next]_vars

\* ---------------------------------------------------------------- VerifySnapshot, as a whole
\* lines 46-60: the range loop over trades from position k on
RECURSIVE RangeTrades(_, _, _, _)
RangeTrades(res, ts, st, k) ==
    IF k > Len(ts)
    THEN res
    ELSE RangeTrades(LoopBody(res, ts[k], verifyTrade(ts[k], st)), ts, st, k + 1)

\* VerifySnapshot(trades, snapshot): <<result, err>> of one call run on its own
VerifySnapshot(ts, os) ==
    LET built == buildOrderbookState(os) IN
    IF built[2] # Nil
    THEN << [ZeroResult EXCEPT
               !.Valid = FALSE,
               !.ErrorMessage = Sprintf("failed to build orderbook state", "", built[2]),
               !.TotalTrades = Len(ts)],
            built[2] >>
    ELSE << RangeTrades([ZeroResult EXCEPT !.Valid = TRUE, !.TotalTrades = Len(ts)],
                        ts, built[1], 1),
            Nil >>

\* ---------------------------------------------------------------- two calls of VerifySnapshot
\* Two goroutines each call VerifySnapshot once, on one verifier or on two
\* verifiers created independently.  A step of a call is a step of its
\* goroutine; the scheduler interleaves the steps freely.  The zap logger the
\* verifier holds is an output sink that no step reads back; what is written
\* to it is not part of the state.
MaxCallOrders == 2
MaxCallTrades == 2

Calls == {1, 2}
VerifierIDs == {1, 2}

\* NewOrderbookVerifier(logger): the object holds the logger and nothing else
NewOrderbookVerifier == [logger |-> "zap"]

\* the snapshots and batches the two calls are made with: the buy order is
\* o1, the sell order is o2, every order is posted at time 1 for quantity 1,
\* the trades are for quantity 1 and are named after their price
CallOrderPool ==
    {o \in OrderPool :
        /\ o.Timestamp = 1
        /\ o.ID = (IF o.Side = "sell" THEN "o2" ELSE "o1")}
CallTrade ==
    {t \in Trade :
        /\ t.BuyOrderID = "o1" /\ t.SellOrderID = "o2" /\ t.Quantity = 1
        /\ t.ID = (IF t.Price = 1 THEN "t1" ELSE "t2")}
Batches == [orders : BoundedSeq(CallOrderPool, MaxCallOrders),
            trades : BoundedSeq(CallTrade, MaxCallTrades)]

\* a call that has not taken its first step
NewCall(v, b) ==
    [verifier |-> v, orders |-> b.orders, trades |-> b.trades, pc |-> "build",
     state |-> NilState, idx |-> 0, result |-> NoResult, err |-> Nil,
     prior |-> {}]

InitTwoCalls ==
    /\ verifiers = [v \in VerifierIDs |-> NewOrderbookVerifier]
    /\ \E b \in [Calls -> Batches], v \in VerifierIDs :
          calls = [c \in Calls |-> NewCall(IF c = 1 THEN 1 ELSE v, b[c])]
    /\ EngineIdle /\ WorkerIdle /\ ContractIdle /\ PublisherIdle /\ SubmitterIdle

\* the calls that have returned
ReturnedCalls == {d \in Calls : calls[d].pc = "done"}

\* variant: the built state is kept in the verifier, so every call on the
\* same verifier sees the state built last
CallBuildState_StateInVerifier(c) ==
    /\ calls[c].pc = "build"
    /\ LET me == calls[c]
           built == buildOrderbookState(me.orders)
       IN calls' = [d \in Calls |->
             IF d = c
             THEN IF built[2] # Nil
                  THEN [me EXCEPT
                          !.result = [ZeroResult EXCEPT
                              !.Valid = FALSE,
                              !.ErrorMessage =
                                  Sprintf("failed to build orderbook state", "", built[2]),
                              !.TotalTrades = Len(me.trades)],
                          !.err = built[2],
                          !.pc = "done",
                          !.prior = ReturnedCalls]
                  ELSE [me EXCEPT
                          !.state = built[1],
                          !.result = [ZeroResult EXCEPT
                              !.Valid = TRUE, !.TotalTrades = Len(me.trades)],
                          !.pc = "loop",
                          !.prior = ReturnedCalls]
             ELSE IF built[2] = Nil /\ calls[d].verifier = me.verifier
                                    /\ calls[d].pc = "loop"
                  THEN [calls[d] EXCEPT !.state = built[1]]
                  ELSE calls[d]]
    /\ UNCHANGED << verifiers, outsideCalls >>

\* variant: the snapshot's own slice is sorted, not a copy of it
CallBuildState_SortsInput(c) ==
    /\ calls[c].pc = "build"
    /\ LET me == calls[c]
           built == buildOrderbookState(me.orders)
       IN calls' = [calls EXCEPT ![c] =
             IF built[2] # Nil
             THEN [me EXCEPT
                     !.result = [ZeroResult EXCEPT
                         !.Valid = FALSE,
                         !.ErrorMessage =
                             Sprintf("failed to build orderbook state", "", built[2]),
                         !.TotalTrades = Len(me.trades)],
                     !.err = built[2],
                     !.pc = "done",
                     !.prior = ReturnedCalls]
             ELSE [me EXCEPT
                     !.orders = built[1].BuyOrders \o built[1].SellOrders,
                     !.state = built[1],
                     !.result = [ZeroResult EXCEPT
                         !.Valid = TRUE, !.TotalTrades = Len(me.trades)],
                     !.pc = "loop",
                     !.prior = ReturnedCalls]]
    /\ UNCHANGED << verifiers, outsideCalls >>

\* variant: the result is kept in the verifier and not reset, so a call on a
\* verifier that has returned before goes on from the earlier result
CallBuildState_KeepsResult(c) ==
    /\ calls[c].pc = "build"
    /\ LET me == calls[c]
           built == buildOrderbookState(me.orders)
           earlier == {d \in ReturnedCalls : calls[d].verifier = me.verifier}
           start == IF earlier = {}
                    THEN ZeroResult
                    ELSE calls[CHOOSE d \in earlier : TRUE].result
       IN calls' = [calls EXCEPT ![c] =
             IF built[2] # Nil
             THEN [me EXCEPT
                     !.result = [ZeroResult EXCEPT
                         !.Valid = FALSE,
                         !.ErrorMessage =
                             Sprintf("failed to build orderbook state", "", built[2]),
                         !.TotalTrades = Len(me.trades)],
                     !.err = built[2],
                     !.pc = "done",
                     !.prior = ReturnedCalls]
             ELSE [me EXCEPT
                     !.state = built[1],
                     !.result = [start EXCEPT
                         !.Valid = TRUE, !.TotalTrades = Len(me.trades)],
                     !.pc = "loop",
                     !.prior = ReturnedCalls]]
    /\ UNCHANGED << verifiers, outsideCalls >>

\* lines 30-44 in call c; prior records the calls that had returned by then
CallBuildState(c) ==
    /\ calls[c].pc = "build"
    /\ LET me == calls[c]
           built == buildOrderbookState(me.orders)
       IN calls' = [calls EXCEPT ![c] =
             IF built[2] # Nil
             THEN [me EXCEPT
                     !.result = [ZeroResult EXCEPT
                         !.Valid = FALSE,
                         !.ErrorMessage =
                             Sprintf("failed to build orderbook state", "", built[2]),
                         !.TotalTrades = Len(me.trades)],
                     !.err = built[2],
                     !.pc = "done",
                     !.prior = ReturnedCalls]
             ELSE [me EXCEPT
                     !.state = built[1],
                     !.result = [ZeroResult EXCEPT
                         !.Valid = TRUE, !.TotalTrades = Len(me.trades)],
                     !.pc = "loop",
                     !.prior = ReturnedCalls]]
    /\ UNCHANGED << verifiers, outsideCalls >>

\* lines 46-60 in call c: one iteration
CallVerifyNextTrade(c) ==
    /\ calls[c].pc = "loop"
    /\ calls[c].idx < Len(calls[c].trades)
    /\ LET me == calls[c]
           trade == me.trades[me.idx + 1]
           e == verifyTrade(trade, me.state)
       IN calls' = [calls EXCEPT ![c] =
             [me EXCEPT !.result = LoopBody(me.result, trade, e),
                        !.idx = me.idx + 1]]
    /\ UNCHANGED << verifiers, outsideCalls >>

\* line 68 in call c
CallReturn(c) ==
    /\ calls[c].pc = "loop"
    /\ calls[c].idx = Len(calls[c].trades)
    /\ calls' = [calls EXCEPT ![c] = [calls[c] EXCEPT !.pc = "done", !.err = Nil]]
    /\ UNCHANGED << verifiers, outsideCalls >>

NextTwoCalls ==
    \E c \in Calls : CallBuildState(c) \/ CallVerifyNextTrade(c) \/ CallReturn(c)

SpecTwoCalls == InitTwoCalls /\ [][NextTwoCalls]_vars

\* ---------------------------------------------------------------- task worker (cmd/main.go)
\* One TaskRequest reaches the TaskWorker.  ValidateTask and HandleTask are
\* the two methods the performer interface exposes; each is called at most
\* once on the request, in either order, as the server that main() hands the
\* worker to decides.  HandleTask runs VerifySnapshot (the actions BuildState,
\* VerifyNextTrade and Return above) on the parsed input.
MaxTaskOrders == 2
MaxTaskTrades == 2

\* the orders and trades a payload carries: orders posted at time 1 for
\* quantity 1, trades for quantity 1 named after their price
TaskOrderPool == {o \in OrderPool : o.Timestamp = 1}
TaskTrade ==
    {t \in Trade : t.Quantity = 1 /\ t.ID = (IF t.Price = 1 THEN "t1" ELSE "t2")}

\* type TaskInput
TaskInput ==
    [SnapshotHash : {"", "0x12"},
     TradeBatchID : {"", "batch"},
     Snapshot : [SequenceNumber : {0, 1},
                 MarketID : {"", "market"},
                 Orders : BoundedSeq(TaskOrderPool, MaxTaskOrders)],
     Trades : BoundedSeq(TaskTrade, MaxTaskTrades)]

\* var taskInput TaskInput: the zero value
ZeroTaskInput ==
    [SnapshotHash |-> "", TradeBatchID |-> "",
     Snapshot |-> [SequenceNumber |-> 0, MarketID |-> "", Orders |-> <<>>],
     Trades |-> <<>>]

\* a TaskRequest: the payload is JSON of a TaskInput, or bytes that
\* json.Unmarshal rejects
TaskRequest ==
    [TaskId : {"task"}, json : {"ok"}, input : TaskInput]
        \cup {[TaskId |-> "task", json |-> "malformed", input |-> ZeroTaskInput]}

\* the nil *TaskResponse
NoResponse == [isNil |-> TRUE]

\* the IDs of the snapshot's orders: the keys of the orderIDs map
OrderIDsOf(os) == {os[k].ID : k \in 1..Len(os)}

\* index of the first trade that references an unknown order, 0 if none does
FirstUnknownReference(ts, ids) ==
    IF \E k \in 1..Len(ts) : ts[k].BuyOrderID \notin ids \/ ts[k].SellOrderID \notin ids
    THEN CHOOSE k \in 1..Len(ts) :
             /\ ts[k].BuyOrderID \notin ids \/ ts[k].SellOrderID \notin ids
             /\ \A j \in 1..(k - 1) :
                    ts[j].BuyOrderID \in ids /\ ts[j].SellOrderID \in ids
    ELSE 0

\* variant: only the buy side of a trade is looked up among the order IDs
ValidateTask_BuyReferenceOnly(t) ==
    IF t.json # "ok" THEN Errorf("failed to parse task data", "", <<>>, <<>>)
    ELSE IF t.input.SnapshotHash = ""
         THEN Errorf("snapshot_hash is required", "", <<>>, <<>>)
    ELSE IF t.input.TradeBatchID = ""
         THEN Errorf("trade_batch_id is required", "", <<>>, <<>>)
    ELSE IF t.input.Snapshot.SequenceNumber = 0
         THEN Errorf("snapshot sequence_number is required", "", <<>>, <<>>)
    ELSE IF t.input.Snapshot.MarketID = ""
         THEN Errorf("snapshot market_id is required", "", <<>>, <<>>)
    ELSE IF Len(t.input.Trades) = 0
         THEN Errorf("trades array cannot be empty", "", <<>>, <<>>)
    ELSE IF Len(t.input.Snapshot.Orders) = 0
         THEN Errorf("snapshot must contain at least one order", "", <<>>, <<>>)
    ELSE LET ids == OrderIDsOf(t.input.Snapshot.Orders)
             ts == t.input.Trades
         IN IF \E k \in 1..Len(ts) : ts[k].BuyOrderID \notin ids
            THEN LET k == CHOOSE k \in 1..Len(ts) :
                              /\ ts[k].BuyOrderID \notin ids
                              /\ \A j \in 1..(k - 1) : ts[j].BuyOrderID \in ids
                 IN Errorf("trade references unknown buy order", "",
                           << ts[k].ID, ts[k].BuyOrderID >>, <<>>)
            ELSE Nil

\* variant: a trade's buy order is looked up among the buy orders only and
\* its sell order among the sell orders only
ValidateTask_SideSpecific(t) ==
    IF t.json # "ok" THEN Errorf("failed to parse task data", "", <<>>, <<>>)
    ELSE IF t.input.SnapshotHash = ""
         THEN Errorf("snapshot_hash is required", "", <<>>, <<>>)
    ELSE IF t.input.TradeBatchID = ""
         THEN Errorf("trade_batch_id is required", "", <<>>, <<>>)
    ELSE IF t.input.Snapshot.SequenceNumber = 0
         THEN Errorf("snapshot sequence_number is required", "", <<>>, <<>>)
    ELSE IF t.input.Snapshot.MarketID = ""
         THEN Errorf("snapshot market_id is required", "", <<>>, <<>>)
    ELSE IF Len(t.input.Trades) = 0
         THEN Errorf("trades array cannot be empty", "", <<>>, <<>>)
    ELSE IF Len(t.input.Snapshot.Orders) = 0
         THEN Errorf("snapshot must contain at least one order", "", <<>>, <<>>)
    ELSE LET buyIds == OrderIDsOf(SelectSeq(t.input.Snapshot.Orders, IsBuy))
             sellIds == OrderIDsOf(SelectSeq(t.input.Snapshot.Orders, IsSell))
             ts == t.input.Trades
             unknown == {k \in 1..Len(ts) : \/ ts[k].BuyOrderID \notin buyIds
                                            \/ ts[k].SellOrderID \notin sellIds}
         IN IF unknown = {} THEN Nil
            ELSE LET bad == CHOOSE k \in unknown : \A j \in unknown : k <= j
                 IN IF ts[bad].BuyOrderID \notin buyIds
                    THEN Errorf("trade references unknown buy order", "",
                                << ts[bad].ID, ts[bad].BuyOrderID >>, <<>>)
                    ELSE Errorf("trade references unknown sell order", "",
                                << ts[bad].ID, ts[bad].SellOrderID >>, <<>>)

\* ValidateTask: the error it returns, Nil when the request is accepted
ValidateTask(t) ==
    IF t.json # "ok" THEN Errorf("failed to parse task data", "", <<>>, <<>>)
    ELSE IF t.input.SnapshotHash = ""
         THEN Errorf("snapshot_hash is required", "", <<>>, <<>>)
    ELSE IF t.input.TradeBatchID = ""
         THEN Errorf("trade_batch_id is required", "", <<>>, <<>>)
    ELSE IF t.input.Snapshot.SequenceNumber = 0
         THEN Errorf("snapshot sequence_number is required", "", <<>>, <<>>)
    ELSE IF t.input.Snapshot.MarketID = ""
         THEN Errorf("snapshot market_id is required", "", <<>>, <<>>)
    ELSE IF Len(t.input.Trades) = 0
         THEN Errorf("trades array cannot be empty", "", <<>>, <<>>)
    ELSE IF Len(t.input.Snapshot.Orders) = 0
         THEN Errorf("snapshot must contain at least one order", "", <<>>, <<>>)
    ELSE LET ids == OrderIDsOf(t.input.Snapshot.Orders)
             ts == t.input.Trades
             bad == FirstUnknownReference(ts, ids)
         IN IF bad = 0 THEN Nil
            ELSE IF ts[bad].BuyOrderID \notin ids
                 THEN Errorf("trade references unknown buy order", "",
                             << ts[bad].ID, ts[bad].BuyOrderID >>, <<>>)
                 ELSE Errorf("trade references unknown sell order", "",
                             << ts[bad].ID, ts[bad].SellOrderID >>, <<>>)

InitWorker ==
    /\ request \in TaskRequest
    /\ validated = FALSE
    /\ validateErr = Nil
    /\ hpc = "start"
    /\ response = NoResponse
    /\ handleErr = Nil
    /\ EngineIdle /\ CallsIdle /\ ContractIdle /\ PublisherIdle /\ SubmitterIdle

\* the server calls ValidateTask on the request
CallValidateTask ==
    /\ ~validated
    /\ validated' = TRUE
    /\ validateErr' = ValidateTask(request)
    /\ UNCHANGED << request, hpc, response, handleErr, engineVars, outsideWorker >>

\* HandleTask, lines 153-185: parse the payload and call VerifySnapshot
HandleTaskParse ==
    /\ hpc = "start"
    /\ IF request.json # "ok"
       THEN /\ handleErr' = Errorf("failed to parse task data", "", <<>>, <<>>)
            /\ hpc' = "returned"
            /\ UNCHANGED << orders, trades, pc >>
       ELSE /\ orders' = request.input.Snapshot.Orders
            /\ trades' = request.input.Trades
            /\ pc' = "build"
            /\ hpc' = "verifying"
            /\ UNCHANGED handleErr
    /\ UNCHANGED << state, idx, result, err, tradeErrs >>
    /\ UNCHANGED << request, validated, validateErr, response, outsideWorker >>

\* json.Marshal(resultData) as the response carries it; verified_at and the
\* durations are clock readings and are left out.  Marshal cannot fail on
\* these types, so lines 237-244 are never taken.
ResultData(res, input) ==
    [verification_result |-> res,
     snapshot_hash |-> input.SnapshotHash,
     trade_batch_id |-> input.TradeBatchID,
     verifier_version |-> "1.0.0",
     orders_processed |-> Len(input.Snapshot.Orders),
     trades_processed |-> Len(input.Trades)]

\* variant: the result is reported whether or not VerifySnapshot returned an
\* error
HandleTaskRespond_IgnoresError ==
    /\ hpc = "verifying"
    /\ pc = "done"
    /\ response' = [isNil |-> FALSE, TaskId |-> request.TaskId,
                    Result |-> ResultData(result, request.input)]
    /\ UNCHANGED handleErr
    /\ hpc' = "returned"
    /\ UNCHANGED << request, validated, validateErr, engineVars, outsideWorker >>

\* HandleTask, lines 187-262: VerifySnapshot has returned
HandleTaskRespond ==
    /\ hpc = "verifying"
    /\ pc = "done"
    /\ IF err # Nil
       THEN /\ handleErr' = Errorf("verification failed", err.msg, err.ids, err.nums)
            /\ UNCHANGED response
       ELSE /\ response' = [isNil |-> FALSE, TaskId |-> request.TaskId,
                            Result |-> ResultData(result, request.input)]
            /\ UNCHANGED handleErr
    /\ hpc' = "returned"
    /\ UNCHANGED << request, validated, validateErr, engineVars, outsideWorker >>

NextWorker ==
    \/ CallValidateTask
    \/ HandleTaskParse
    \/ BuildState
    \/ VerifyNextTrade
    \/ Return
    \/ HandleTaskRespond

SpecWorker == InitWorker /\ [][NextWorker]_vars

\* ---------------------------------------------------------------- SettlementVerifier.sol
\* Accounts send transactions to the deployed contract; each transaction runs
\* to its end or reverts, and a revert leaves the contract's storage and every
\* balance as they were.  Time is counted in days and ether in quarters of an
\* ether.
CHALLENGE_PERIOD == 7
MIN_STAKE == 4
SLASH_PERCENTAGE == 50

MaxSettlements == 1
MaxChallenges == 1
InitialBalance == 5

\* the times of the blocks: the first block, the next day, and the same two
\* days one challenge period later
BlockTimes == {0, 1, CHALLENGE_PERIOD, CHALLENGE_PERIOD + 1}

Addresses == {"deployer", "operator", "challenger"}
ZeroAddress == "0x0"
Contract == "SettlementVerifier"
TxIds == {"tx1"}
ZeroBytes32 == << >>

\* enum SettlementStatus
SettlementStatus == {"Active", "Challenged", "Frozen", "Slashed"}

\* keccak256(abi.encodePacked(a, b, c)): distinct arguments, distinct hashes
Keccak256(a, b, c) == << a, b, c >>

\* the value a mapping holds at a key that was never written
ZeroSettlement ==
    [txId |-> ZeroBytes32, operator |-> ZeroAddress, timestamp |-> 0,
     status |-> "Active", snapshotHash |-> ZeroBytes32, tradeBatchId |-> "",
     challengeDeadline |-> 0]
ZeroChallenge ==
    [challenger |-> ZeroAddress, settlementId |-> ZeroBytes32, proof |-> "",
     timestamp |-> 0, resolved |-> FALSE, successful |-> FALSE]

\* settlements[id] and challenges[id]
SettlementAt(id) == IF id \in DOMAIN settlements THEN settlements[id] ELSE ZeroSettlement
ChallengeAt(id) == IF id \in DOMAIN challenges THEN challenges[id] ELSE ZeroChallenge
\* mapping[key] = value
Store(mapping, key, value) ==
    [k \in DOMAIN mapping \cup {key} |-> IF k = key THEN value ELSE mapping[k]]

\* the constructor: the deployer owns the contract, nothing is stored
InitContract ==
    /\ settlements = << >>
    /\ challenges = << >>
    /\ operatorStakes = [a \in Addresses |-> 0]
    /\ authorizedChallengeers = [a \in Addresses |-> FALSE]
    /\ owner = "deployer"
    /\ balances = [a \in Addresses \cup {Contract} |->
                      IF a = Contract THEN 0 ELSE InitialBalance]
    /\ blockTimestamp = 0
    /\ lastTx = [reverted |-> FALSE]
    /\ EngineIdle /\ CallsIdle /\ WorkerIdle /\ PublisherIdle /\ SubmitterIdle

\* a transaction that reverted: its receipt says so and nothing else has
\* changed; the reason string goes back to the sender and is not kept
Reverted(reason) ==
    /\ lastTx' = [reverted |-> TRUE]
    /\ UNCHANGED << settlements, challenges, operatorStakes, authorizedChallengeers,
                    owner, balances, blockTimestamp >>
\* a transaction that ran to its end
Succeeded == lastTx' = [reverted |-> FALSE]

\* variant: a settlement ID that is already stored is written again
registerSettlement_Overwrites(sender, value, txId, snapshotHash, tradeBatchId) ==
    LET settlementId == Keccak256(txId, sender, blockTimestamp)
    IN /\ balances[sender] >= value
       /\ IF ~(value >= MIN_STAKE)
          THEN Reverted("Insufficient stake")
          ELSE /\ Cardinality(DOMAIN settlements \cup {settlementId}) <= MaxSettlements
               /\ settlements' = Store(settlements, settlementId,
                     [txId |-> txId, operator |-> sender,
                      timestamp |-> blockTimestamp, status |-> "Active",
                      snapshotHash |-> snapshotHash, tradeBatchId |-> tradeBatchId,
                      challengeDeadline |-> blockTimestamp + CHALLENGE_PERIOD])
               /\ operatorStakes' = [operatorStakes EXCEPT ![sender] = @ + value]
               /\ balances' = [balances EXCEPT ![sender] = @ - value,
                                               ![Contract] = @ + value]
               /\ Succeeded
               /\ UNCHANGED << challenges, authorizedChallengeers, owner, blockTimestamp >>

\* lines 102-126
registerSettlement(sender, value, txId, snapshotHash, tradeBatchId) ==
    LET settlementId == Keccak256(txId, sender, blockTimestamp)
    IN /\ balances[sender] >= value
       /\ IF ~(value >= MIN_STAKE)
          THEN Reverted("Insufficient stake")
          ELSE IF ~(SettlementAt(settlementId).operator = ZeroAddress)
          THEN Reverted("Settlement already exists")
          ELSE /\ Cardinality(DOMAIN settlements \cup {settlementId}) <= MaxSettlements
               /\ settlements' = Store(settlements, settlementId,
                     [txId |-> txId, operator |-> sender,
                      timestamp |-> blockTimestamp, status |-> "Active",
                      snapshotHash |-> snapshotHash, tradeBatchId |-> tradeBatchId,
                      challengeDeadline |-> blockTimestamp + CHALLENGE_PERIOD])
               /\ operatorStakes' = [operatorStakes EXCEPT ![sender] = @ + value]
               /\ balances' = [balances EXCEPT ![sender] = @ - value,
                                               ![Contract] = @ + value]
               /\ Succeeded
               /\ UNCHANGED << challenges, authorizedChallengeers, owner, blockTimestamp >>

\* variant: a challenge at the very second of the deadline is too late
challengeSettlementRevert_DeadlineExcluded(sender, settlementId) ==
    IF ~authorizedChallengeers[sender] THEN "Not authorized to challenge"
    ELSE IF ~(SettlementAt(settlementId).operator # ZeroAddress)
         THEN "Settlement does not exist"
    ELSE IF ~(SettlementAt(settlementId).status = "Active") THEN "Settlement not active"
    ELSE IF ~(blockTimestamp < SettlementAt(settlementId).challengeDeadline)
         THEN "Challenge period expired"
    ELSE ""

\* lines 136-140: the modifiers and requires of challengeSettlement in the
\* order they run; "" when none fails
challengeSettlementRevert(sender, settlementId) ==
    IF ~authorizedChallengeers[sender] THEN "Not authorized to challenge"
    ELSE IF ~(SettlementAt(settlementId).operator # ZeroAddress)
         THEN "Settlement does not exist"
    ELSE IF ~(SettlementAt(settlementId).status = "Active") THEN "Settlement not active"
    ELSE IF ~(blockTimestamp <= SettlementAt(settlementId).challengeDeadline)
         THEN "Challenge period expired"
    ELSE ""

\* lines 133-156
challengeSettlement(sender, settlementId, proof) ==
    LET reason == challengeSettlementRevert(sender, settlementId)
        challengeId == Keccak256(settlementId, sender, blockTimestamp)
    IN IF reason # ""
       THEN Reverted(reason)
       ELSE /\ Cardinality(DOMAIN challenges \cup {challengeId}) <= MaxChallenges
            /\ challenges' = Store(challenges, challengeId,
                  [challenger |-> sender, settlementId |-> settlementId,
                   proof |-> proof, timestamp |-> blockTimestamp,
                   resolved |-> FALSE, successful |-> FALSE])
            /\ settlements' = [settlements EXCEPT ![settlementId].status = "Challenged"]
            /\ Succeeded
            /\ UNCHANGED << operatorStakes, authorizedChallengeers, owner, balances,
                            blockTimestamp >>

\* variant: the slashed half of an odd stake is rounded up
resolveChallenge_RoundsUp(sender, challengeId, successful) ==
    LET challenge == ChallengeAt(challengeId)
        settlement == SettlementAt(challenge.settlementId)
        slashAmount == (operatorStakes[settlement.operator] * SLASH_PERCENTAGE + 99) \div 100
    IN IF sender # owner
       THEN Reverted("Ownable: caller is not the owner")
       ELSE IF ~(~challenge.resolved)
       THEN Reverted("Challenge already resolved")
       ELSE IF ~(settlement.status = "Challenged")
       THEN Reverted("Settlement not challenged")
       ELSE /\ challenges' = Store(challenges, challengeId,
                  [challenge EXCEPT !.resolved = TRUE, !.successful = successful])
            /\ settlements' = [settlements EXCEPT ![challenge.settlementId].status =
                                  IF successful THEN "Slashed" ELSE "Active"]
            /\ IF successful /\ slashAmount > 0
               THEN /\ operatorStakes' =
                          [operatorStakes EXCEPT ![settlement.operator] = @ - slashAmount]
                    /\ balances' = [a \in DOMAIN balances |->
                          balances[a]
                          + (IF a = challenge.challenger THEN slashAmount ELSE 0)
                          - (IF a = Contract THEN slashAmount ELSE 0)]
               ELSE UNCHANGED << operatorStakes, balances >>
            /\ Succeeded
            /\ UNCHANGED << authorizedChallengeers, owner, blockTimestamp >>

\* variant: the operator is slashed whatever the resolution
resolveChallenge_SlashesAnyway(sender, challengeId, successful) ==
    LET challenge == ChallengeAt(challengeId)
        settlement == SettlementAt(challenge.settlementId)
        slashAmount == (operatorStakes[settlement.operator] * SLASH_PERCENTAGE) \div 100
    IN IF sender # owner
       THEN Reverted("Ownable: caller is not the owner")
       ELSE IF ~(~challenge.resolved)
       THEN Reverted("Challenge already resolved")
       ELSE IF ~(settlement.status = "Challenged")
       THEN Reverted("Settlement not challenged")
       ELSE /\ challenges' = Store(challenges, challengeId,
                  [challenge EXCEPT !.resolved = TRUE, !.successful = successful])
            /\ settlements' = [settlements EXCEPT ![challenge.settlementId].status =
                                  IF successful THEN "Slashed" ELSE "Active"]
            /\ IF slashAmount > 0
               THEN /\ operatorStakes' =
                          [operatorStakes EXCEPT ![settlement.operator] = @ - slashAmount]
                    /\ balances' = [a \in DOMAIN balances |->
                          balances[a]
                          + (IF a = challenge.challenger THEN slashAmount ELSE 0)
                          - (IF a = Contract THEN slashAmount ELSE 0)]
               ELSE UNCHANGED << operatorStakes, balances >>
            /\ Succeeded
            /\ UNCHANGED << authorizedChallengeers, owner, blockTimestamp >>

\* variant: the settlement's status is not looked at
resolveChallenge_AnyStatus(sender, challengeId, successful) ==
    LET challenge == ChallengeAt(challengeId)
        id == challenge.settlementId
        settlement == SettlementAt(id)
        stake == IF settlement.operator \in DOMAIN operatorStakes
                 THEN operatorStakes[settlement.operator] ELSE 0
        slashAmount == (stake * SLASH_PERCENTAGE) \div 100
    IN IF sender # owner
       THEN Reverted("Ownable: caller is not the owner")
       ELSE IF ~(~challenge.resolved)
       THEN Reverted("Challenge already resolved")
       ELSE /\ challenges' = Store(challenges, challengeId,
                  [challenge EXCEPT !.resolved = TRUE, !.successful = successful])
            /\ settlements' = Store(settlements, id,
                  [settlement EXCEPT !.status =
                      IF successful THEN "Slashed" ELSE "Active"])
            /\ IF successful /\ slashAmount > 0
               THEN /\ operatorStakes' =
                          [operatorStakes EXCEPT ![settlement.operator] = @ - slashAmount]
                    /\ balances' = [a \in DOMAIN balances |->
                          balances[a]
                          + (IF a = challenge.challenger THEN slashAmount ELSE 0)
                          - (IF a = Contract THEN slashAmount ELSE 0)]
               ELSE UNCHANGED << operatorStakes, balances >>
            /\ Succeeded
            /\ UNCHANGED << authorizedChallengeers, owner, blockTimestamp >>

\* lines 163-194
resolveChallenge(sender, challengeId, successful) ==
    LET challenge == ChallengeAt(challengeId)
        settlement == SettlementAt(challenge.settlementId)
        slashAmount == (operatorStakes[settlement.operator] * SLASH_PERCENTAGE) \div 100
    IN IF sender # owner
       THEN Reverted("Ownable: caller is not the owner")
       ELSE IF ~(~challenge.resolved)
       THEN Reverted("Challenge already resolved")
       ELSE IF ~(settlement.status = "Challenged")
       THEN Reverted("Settlement not challenged")
       ELSE /\ challenges' = Store(challenges, challengeId,
                  [challenge EXCEPT !.resolved = TRUE, !.successful = successful])
            /\ settlements' = [settlements EXCEPT ![challenge.settlementId].status =
                                  IF successful THEN "Slashed" ELSE "Active"]
            /\ IF successful /\ slashAmount > 0
               THEN /\ operatorStakes' =
                          [operatorStakes EXCEPT ![settlement.operator] = @ - slashAmount]
                    /\ balances' = [a \in DOMAIN balances |->
                          balances[a]
                          + (IF a = challenge.challenger THEN slashAmount ELSE 0)
                          - (IF a = Contract THEN slashAmount ELSE 0)]
               ELSE UNCHANGED << operatorStakes, balances >>
            /\ Succeeded
            /\ UNCHANGED << authorizedChallengeers, owner, blockTimestamp >>

\* lines 200-202
authorizeChallenger(sender, challenger) ==
    IF sender # owner
    THEN Reverted("Ownable: caller is not the owner")
    ELSE /\ authorizedChallengeers' = [authorizedChallengeers EXCEPT ![challenger] = TRUE]
         /\ Succeeded
         /\ UNCHANGED << settlements, challenges, operatorStakes, owner, balances,
                         blockTimestamp >>

\* lines 208-210
revokeChallenger(sender, challenger) ==
    IF sender # owner
    THEN Reverted("Ownable: caller is not the owner")
    ELSE /\ authorizedChallengeers' = [authorizedChallengeers EXCEPT ![challenger] = FALSE]
         /\ Succeeded
         /\ UNCHANGED << settlements, challenges, operatorStakes, owner, balances,
                         blockTimestamp >>

\* variant: the withdrawn amount is paid out but stays on record
withdrawStake_KeepsRecord(sender, amount) ==
    IF ~(operatorStakes[sender] >= amount)
    THEN Reverted("Insufficient stake")
    ELSE IF ~(amount > 0)
    THEN Reverted("Amount must be positive")
    ELSE /\ balances' = [balances EXCEPT ![sender] = @ + amount,
                                         ![Contract] = @ - amount]
         /\ Succeeded
         /\ UNCHANGED << settlements, challenges, operatorStakes,
                         authorizedChallengeers, owner, blockTimestamp >>

\* lines 216-225; the accounts are externally owned, so the transfer cannot
\* re-enter or fail
withdrawStake(sender, amount) ==
    IF ~(operatorStakes[sender] >= amount)
    THEN Reverted("Insufficient stake")
    ELSE IF ~(amount > 0)
    THEN Reverted("Amount must be positive")
    ELSE /\ operatorStakes' = [operatorStakes EXCEPT ![sender] = @ - amount]
         /\ balances' = [balances EXCEPT ![sender] = @ + amount,
                                         ![Contract] = @ - amount]
         /\ Succeeded
         /\ UNCHANGED << settlements, challenges, authorizedChallengeers, owner,
                         blockTimestamp >>

\* lines 249-251
freezeSettlement(sender, settlementId) ==
    IF sender # owner
    THEN Reverted("Ownable: caller is not the owner")
    ELSE IF ~(SettlementAt(settlementId).operator # ZeroAddress)
    THEN Reverted("Settlement does not exist")
    ELSE /\ settlements' = [settlements EXCEPT ![settlementId].status = "Frozen"]
         /\ Succeeded
         /\ UNCHANGED << challenges, operatorStakes, authorizedChallengeers, owner,
                         balances, blockTimestamp >>

\* lines 257-260
unfreezeSettlement(sender, settlementId) ==
    IF sender # owner
    THEN Reverted("Ownable: caller is not the owner")
    ELSE IF ~(SettlementAt(settlementId).operator # ZeroAddress)
    THEN Reverted("Settlement does not exist")
    ELSE IF ~(SettlementAt(settlementId).status = "Frozen")
    THEN Reverted("Settlement not frozen")
    ELSE /\ settlements' = [settlements EXCEPT ![settlementId].status = "Active"]
         /\ Succeeded
         /\ UNCHANGED << challenges, operatorStakes, authorizedChallengeers, owner,
                         balances, blockTimestamp >>

\* a later block
NextBlock ==
    /\ \E t \in BlockTimes :
          /\ t > blockTimestamp
          /\ blockTimestamp' = t
    /\ UNCHANGED << settlements, challenges, operatorStakes, authorizedChallengeers,
                    owner, balances, lastTx >>

\* the settlement and challenge IDs a transaction may name: the stored ones
\* and one that was never stored
SettlementIds == DOMAIN settlements \cup {Keccak256("tx0", ZeroAddress, 0)}
ChallengeIds == DOMAIN challenges \cup {Keccak256(ZeroBytes32, ZeroAddress, 0)}

\* the value attached to a registerSettlement transaction: less than the
\* minimum stake, the minimum, and more
StakeValues == {MIN_STAKE - 1, MIN_STAKE, MIN_STAKE + 1}

RegisterTx ==
    /\ \E sender \in Addresses, value \in StakeValues, txId \in TxIds :
          registerSettlement(sender, value, txId, "snapshot", "batch")
    /\ UNCHANGED outsideContract
ChallengeTx ==
    /\ \E sender \in Addresses, id \in SettlementIds :
          challengeSettlement(sender, id, "proof")
    /\ UNCHANGED outsideContract
ResolveTx ==
    /\ \E sender \in Addresses, id \in ChallengeIds, successful \in BOOLEAN :
          resolveChallenge(sender, id, successful)
    /\ UNCHANGED outsideContract
AuthorizeTx ==
    /\ \E sender, challenger \in Addresses : authorizeChallenger(sender, challenger)
    /\ UNCHANGED outsideContract
RevokeTx ==
    /\ \E sender, challenger \in Addresses : revokeChallenger(sender, challenger)
    /\ UNCHANGED outsideContract
WithdrawTx ==
    /\ \E sender \in Addresses, amount \in {0, 1, MIN_STAKE} :
          withdrawStake(sender, amount)
    /\ UNCHANGED outsideContract
FreezeTx ==
    /\ \E sender \in Addresses, id \in SettlementIds : freezeSettlement(sender, id)
    /\ UNCHANGED outsideContract
UnfreezeTx ==
    /\ \E sender \in Addresses, id \in SettlementIds : unfreezeSettlement(sender, id)
    /\ UNCHANGED outsideContract
Mine == NextBlock /\ UNCHANGED outsideContract

NextContract ==
    \/ RegisterTx
    \/ ChallengeTx
    \/ ResolveTx
    \/ AuthorizeTx
    \/ RevokeTx
    \/ WithdrawTx
    \/ FreezeTx
    \/ UnfreezeTx
    \/ Mine

SpecContract == InitContract /\ [][NextContract]_vars

\* ---------------------------------------------------------------- SnapshotPublisher
\* One SnapshotPublisher and the one goroutine that calls PublishSnapshot on
\* it, call after call.  A file of the output directory is named by its kind
\* and sequence number; sha256 is a tuple of what it hashes, so different
\* inputs have different hashes.  The clock counts half seconds.
MaxPublishCalls == 4
MaxClock == 3
TicksPerSecond == 2

\* "0x" followed by 64 zeros, which is the sha256 of nothing a publisher hashes
ZeroHash == << "0x", << >> >>
Sha256(data) == << "0x", data >>

\* the order lists and trade batches a caller publishes
PublishedOrderLists ==
    LET a == [ID |-> "o1", Side |-> "buy", Price |-> 1, Quantity |-> 1, Timestamp |-> 1]
        b == [ID |-> "o2", Side |-> "sell", Price |-> 1, Quantity |-> 1, Timestamp |-> 1]
    IN {<< >>, << a, b >>, << b, a >>}
PublishedTradeBatches ==
    {<< >>, << [ID |-> "t1", BuyOrderID |-> "o1", SellOrderID |-> "o2",
                Price |-> 1, Quantity |-> 1] >>}
MarketIDs == {"market"}

\* what can go wrong in one call: json.Marshal of an order, os.MkdirAll,
\* os.WriteFile of the snapshot file, os.WriteFile of the trades file
PublishFailures == {"none", "marshal order", "mkdir", "write snapshot", "write trades"}

\* string comparison of two order IDs
IDsInOrder == << "o1", "o2" >>
IDLess(a, b) ==
    \E i, j \in 1..Len(IDsInOrder) : IDsInOrder[i] = a /\ IDsInOrder[j] = b /\ i < j

\* sort.Slice by ID on the copy of the orders (an insertion sort)
RECURSIVE SinkByID(_, _)
SinkByID(s, j) ==
    IF j > 1 /\ IDLess(s[j].ID, s[j - 1].ID) THEN SinkByID(Swap(s, j, j - 1), j - 1) ELSE s
RECURSIVE SortByIDFrom(_, _)
SortByIDFrom(s, i) ==
    IF i > Len(s) THEN s ELSE SortByIDFrom(SinkByID(s, i), i + 1)

\* calculateMerkleRoot when no order fails to marshal
calculateMerkleRoot(os) ==
    IF Len(os) = 0 THEN ZeroHash
    ELSE LET sortedOrders == SortByIDFrom(os, 2)
             leaves == [k \in 1..Len(sortedOrders) |-> Sha256(sortedOrders[k])]
         IN Sha256(leaves)

\* Timestamp.Format(time.RFC3339): whole seconds
FormatRFC3339(t) == t \div TicksPerSecond

\* hashSnapshot
hashSnapshot(snapshot) ==
    Sha256(<< snapshot.SequenceNumber, snapshot.MarketID, snapshot.MerkleRoot,
              FormatRFC3339(snapshot.Timestamp) >>)

\* json.MarshalIndent of a snapshot or of a trade list; a file that
\* os.WriteFile failed on may be left with part of its content
MarshalIndent(v) == << "json", v >>
Truncated == << "truncated" >>
SnapshotFile(n) == << "snapshot", n >>
TradesFile(n) == << "trades", n >>
WriteFile(fs, name, data) ==
    [f \in DOMAIN fs \cup {name} |-> IF f = name THEN data ELSE fs[f]]
\* the directory after an os.WriteFile that returned an error
FailedWrites(fs, name) == {fs, WriteFile(fs, name, Truncated)}

\* the nil *OrderbookSnapshot
NilSnapshot == [isNil |-> TRUE]

\* NewSnapshotPublisher
InitPublisher ==
    /\ sequenceNum = 1
    /\ prevHash = ZeroHash
    /\ files = << >>
    /\ publishLog = << >>
    /\ clock = 0
    /\ EngineIdle /\ CallsIdle /\ WorkerIdle /\ ContractIdle /\ SubmitterIdle

\* the return of a PublishSnapshot call
ReturnSnapshot(snapshot, e) ==
    publishLog' = Append(publishLog, [snapshot |-> snapshot, err |-> e])

\* variant: the sequence number advances on a failed call as well
PublishSnapshot_CountsFailedCalls ==
    /\ Len(publishLog) < MaxPublishCalls
    /\ \E marketID \in MarketIDs, os \in PublishedOrderLists,
          ts \in PublishedTradeBatches, now \in clock..MaxClock,
          failure \in PublishFailures :
          LET snapshot == [SequenceNumber |-> sequenceNum, Timestamp |-> now,
                           MarketID |-> marketID, Orders |-> os,
                           MerkleRoot |-> calculateMerkleRoot(os),
                           PrevHash |-> prevHash, isNil |-> FALSE]
              saved == WriteFile(files, SnapshotFile(sequenceNum), MarshalIndent(snapshot))
          IN /\ clock' = now
             /\ failure = "marshal order" => Len(os) > 0
             /\ failure = "write trades" => Len(ts) > 0
             /\ sequenceNum' = sequenceNum + 1
             /\ IF failure = "marshal order"
                THEN /\ ReturnSnapshot(NilSnapshot,
                           Errorf("failed to calculate merkle root",
                                  "failed to marshal order", <<>>, <<>>))
                     /\ UNCHANGED << prevHash, files >>
                ELSE IF failure = "mkdir"
                THEN /\ ReturnSnapshot(NilSnapshot,
                           Errorf("failed to save snapshot",
                                  "failed to create output directory", <<>>, <<>>))
                     /\ UNCHANGED << prevHash, files >>
                ELSE IF failure = "write snapshot"
                THEN /\ ReturnSnapshot(NilSnapshot,
                           Errorf("failed to save snapshot",
                                  "failed to write snapshot file", <<>>, <<>>))
                     /\ files' \in FailedWrites(files, SnapshotFile(sequenceNum))
                     /\ UNCHANGED prevHash
                ELSE IF failure = "write trades"
                THEN /\ ReturnSnapshot(NilSnapshot,
                           Errorf("failed to save trades",
                                  "failed to write trades file", <<>>, <<>>))
                     /\ files' \in FailedWrites(saved, TradesFile(sequenceNum))
                     /\ UNCHANGED prevHash
                ELSE /\ files' = IF Len(ts) > 0
                                 THEN WriteFile(saved, TradesFile(sequenceNum),
                                                MarshalIndent(ts))
                                 ELSE saved
                     /\ prevHash' = hashSnapshot(snapshot)
                     /\ ReturnSnapshot(snapshot, Nil)
    /\ UNCHANGED outsidePublisher

\* variant: prevHash is set as soon as the snapshot file is saved, before the
\* trades are
PublishSnapshot_HashesBeforeTrades ==
    /\ Len(publishLog) < MaxPublishCalls
    /\ \E marketID \in MarketIDs, os \in PublishedOrderLists,
          ts \in PublishedTradeBatches, now \in clock..MaxClock,
          failure \in PublishFailures :
          LET snapshot == [SequenceNumber |-> sequenceNum, Timestamp |-> now,
                           MarketID |-> marketID, Orders |-> os,
                           MerkleRoot |-> calculateMerkleRoot(os),
                           PrevHash |-> prevHash, isNil |-> FALSE]
              saved == WriteFile(files, SnapshotFile(sequenceNum), MarshalIndent(snapshot))
          IN /\ clock' = now
             /\ failure = "marshal order" => Len(os) > 0
             /\ failure = "write trades" => Len(ts) > 0
             /\ IF failure = "marshal order"
                THEN /\ ReturnSnapshot(NilSnapshot,
                           Errorf("failed to calculate merkle root",
                                  "failed to marshal order", <<>>, <<>>))
                     /\ UNCHANGED << sequenceNum, prevHash, files >>
                ELSE IF failure = "mkdir"
                THEN /\ ReturnSnapshot(NilSnapshot,
                           Errorf("failed to save snapshot",
                                  "failed to create output directory", <<>>, <<>>))
                     /\ UNCHANGED << sequenceNum, prevHash, files >>
                ELSE IF failure = "write snapshot"
                THEN /\ ReturnSnapshot(NilSnapshot,
                           Errorf("failed to save snapshot",
                                  "failed to write snapshot file", <<>>, <<>>))
                     /\ files' \in FailedWrites(files, SnapshotFile(sequenceNum))
                     /\ UNCHANGED << sequenceNum, prevHash >>
                ELSE IF failure = "write trades"
                THEN /\ ReturnSnapshot(NilSnapshot,
                           Errorf("failed to save trades",
                                  "failed to write trades file", <<>>, <<>>))
                     /\ files' \in FailedWrites(saved, TradesFile(sequenceNum))
                     /\ prevHash' = hashSnapshot(snapshot)
                     /\ UNCHANGED sequenceNum
                ELSE /\ files' = IF Len(ts) > 0
                                 THEN WriteFile(saved, TradesFile(sequenceNum),
                                                MarshalIndent(ts))
                                 ELSE saved
                     /\ prevHash' = hashSnapshot(snapshot)
                     /\ sequenceNum' = sequenceNum + 1
                     /\ ReturnSnapshot(snapshot, Nil)
    /\ UNCHANGED outsidePublisher

\* PublishSnapshot, lines 37-81: one call, from time.Now() to its return
PublishSnapshot ==
    /\ Len(publishLog) < MaxPublishCalls
    /\ \E marketID \in MarketIDs, os \in PublishedOrderLists,
          ts \in PublishedTradeBatches, now \in clock..MaxClock,
          failure \in PublishFailures :
          LET snapshot == [SequenceNumber |-> sequenceNum, Timestamp |-> now,
                           MarketID |-> marketID, Orders |-> os,
                           MerkleRoot |-> calculateMerkleRoot(os),
                           PrevHash |-> prevHash, isNil |-> FALSE]
              saved == WriteFile(files, SnapshotFile(sequenceNum), MarshalIndent(snapshot))
          IN /\ clock' = now
             /\ failure = "marshal order" => Len(os) > 0
             /\ failure = "write trades" => Len(ts) > 0
             /\ IF failure = "marshal order"
                THEN /\ ReturnSnapshot(NilSnapshot,
                           Errorf("failed to calculate merkle root",
                                  "failed to marshal order", <<>>, <<>>))
                     /\ UNCHANGED << sequenceNum, prevHash, files >>
                ELSE IF failure = "mkdir"
                THEN /\ ReturnSnapshot(NilSnapshot,
                           Errorf("failed to save snapshot",
                                  "failed to create output directory", <<>>, <<>>))
                     /\ UNCHANGED << sequenceNum, prevHash, files >>
                ELSE IF failure = "write snapshot"
                THEN /\ ReturnSnapshot(NilSnapshot,
                           Errorf("failed to save snapshot",
                                  "failed to write snapshot file", <<>>, <<>>))
                     /\ files' \in FailedWrites(files, SnapshotFile(sequenceNum))
                     /\ UNCHANGED << sequenceNum, prevHash >>
                ELSE IF failure = "write trades"
                THEN /\ ReturnSnapshot(NilSnapshot,
                           Errorf("failed to save trades",
                                  "failed to write trades file", <<>>, <<>>))
                     /\ files' \in FailedWrites(saved, TradesFile(sequenceNum))
                     /\ UNCHANGED << sequenceNum, prevHash >>
                ELSE /\ files' = IF Len(ts) > 0
                                 THEN WriteFile(saved, TradesFile(sequenceNum),
                                                MarshalIndent(ts))
                                 ELSE saved
                     /\ prevHash' = hashSnapshot(snapshot)
                     /\ sequenceNum' = sequenceNum + 1
                     /\ ReturnSnapshot(snapshot, Nil)
    /\ UNCHANGED outsidePublisher

NextPublisher == PublishSnapshot

SpecPublisher == InitPublisher /\ [][NextPublisher]_vars

\* ---------------------------------------------------------------- TaskSubmitter
\* One TaskSubmitter, the goroutine that runs WatchAndSubmit on it, the
\* caller that holds its context, and the publisher process that writes
\* snapshot files into the directory it watches.
MaxSequence == 2

\* the errors of package os and of package context
ENOENT == "no such file or directory"
PathError(op, errno) ==
    [msg |-> "*fs.PathError", detail |-> errno, ids |-> << op >>, nums |-> <<>>]
Canceled == Errorf("context canceled", "", <<>>, <<>>)
DeadlineExceeded == Errorf("context deadline exceeded", "", <<>>, <<>>)
\* os.IsNotExist: looks inside a *PathError and nowhere else
IsNotExist(e) == e.msg = "*fs.PathError" /\ e.detail = ENOENT
\* fmt.Errorf("<msg>: %v", e): a new error that holds e's text only
ErrorfV(msg, e) == Errorf(msg, IF e.msg = "*fs.PathError" THEN e.detail ELSE e.msg, <<>>, <<>>)

\* the files a publisher leaves for sequence number n: a snapshot file, and a
\* trades file when the snapshot came with trades; either file may be cut short
WrittenSnapshot(n) ==
    [SequenceNumber |-> n, Timestamp |-> 0, MarketID |-> "market", Orders |-> <<>>,
     MerkleRoot |-> ZeroHash, PrevHash |-> ZeroHash, isNil |-> FALSE]
WrittenTrades ==
    << [ID |-> "t1", BuyOrderID |-> "o1", SellOrderID |-> "o2",
        Price |-> 1, Quantity |-> 1] >>
SnapshotContents(n) == {MarshalIndent(WrittenSnapshot(n)), Truncated}
TradesContents == {MarshalIndent(WrittenTrades), Truncated}

\* os.ReadFile and json.Unmarshal
ReadFile(fs, name) ==
    IF name \in DOMAIN fs THEN [data |-> fs[name], err |-> Nil]
    ELSE [data |-> <<>>, err |-> PathError("open", ENOENT)]
Unmarshal(data, zero) ==
    IF data = Truncated
    THEN [v |-> zero, err |-> Errorf("unexpected end of JSON input", "", <<>>, <<>>)]
    ELSE [v |-> data[2], err |-> Nil]

\* LoadSnapshot, lines 167-180
LoadSnapshot(fs, sequence) ==
    LET file == ReadFile(fs, SnapshotFile(sequence))
        parsed == Unmarshal(file.data, NilSnapshot)
    IN IF file.err # Nil
       THEN [snapshot |-> NilSnapshot, err |-> ErrorfV("failed to read snapshot file", file.err)]
       ELSE IF parsed.err # Nil
       THEN [snapshot |-> NilSnapshot, err |-> ErrorfV("failed to unmarshal snapshot", parsed.err)]
       ELSE [snapshot |-> parsed.v, err |-> Nil]

\* LoadTrades, lines 183-196
LoadTrades(fs, sequence) ==
    LET file == ReadFile(fs, TradesFile(sequence))
        parsed == Unmarshal(file.data, <<>>)
    IN IF file.err # Nil
       THEN [trades |-> <<>>, err |-> ErrorfV("failed to read trades file", file.err)]
       ELSE IF parsed.err # Nil
       THEN [trades |-> <<>>, err |-> ErrorfV("failed to unmarshal trades", parsed.err)]
       ELSE [trades |-> parsed.v, err |-> Nil]

\* time.Now().Unix(): whole seconds
Unix(t) == t \div TicksPerSecond
\* the task file of a task ID, "task-<sequence>-<unix time>"
TaskID(sequence, t) == << "task", sequence, Unix(t) >>
TaskFile(taskID) == << "task file", taskID >>

\* submitVerificationTask, lines 427-459: the record it writes
TaskSubmissionResult(snapshot, ts, batchID, now) ==
    [TaskID |-> TaskID(snapshot.SequenceNumber, now), SnapshotHash |-> snapshot.MerkleRoot,
     Snapshot |-> snapshot, Trades |-> ts, BatchID |-> batchID, SubmittedAt |-> now]

\* processSnapshot, lines 387-424, on the directory fs at time now;
\* writeFails says whether os.WriteFile of the task file returns an error
processSnapshot(fs, sequence, now, writeFails) ==
    LET loaded == LoadSnapshot(fs, sequence)
        loadedTrades == LoadTrades(fs, sequence)
        ts == IF loadedTrades.err # Nil THEN <<>> ELSE loadedTrades.trades
        batchID == << "batch", sequence >>
    IN IF loaded.err # Nil
       THEN [err |-> ErrorfV("failed to load snapshot", loaded.err),
             wrote |-> FALSE, result |-> <<>>]
       ELSE IF loadedTrades.err # Nil /\ ~IsNotExist(loadedTrades.err)
       THEN [err |-> ErrorfV("failed to load trades", loadedTrades.err),
             wrote |-> FALSE, result |-> <<>>]
       ELSE IF writeFails
       THEN [err |-> Errorf("failed to submit verification task",
                            "failed to write task file", <<>>, <<>>),
             wrote |-> TRUE,
             result |-> TaskSubmissionResult(loaded.snapshot, ts, batchID, now)]
       ELSE [err |-> Nil, wrote |-> TRUE,
             result |-> TaskSubmissionResult(loaded.snapshot, ts, batchID, now)]

\* the snapshot files of a directory listing, by their sequence numbers
\* (lines 347-358), and the largest of them (lines 360-362)
ListedSequences(fs) == {n \in 1..MaxSequence : SnapshotFile(n) \in DOMAIN fs}
MaxOf(S) == IF S = {} THEN 0 ELSE CHOOSE n \in S : \A k \in S : k <= n

\* variant: the sequence number processed last is taken again
NewSnapshots_FromLast(listed, last) == {n \in listed : n >= last}

\* lines 364-366: the sequence numbers a poll processes
NewSnapshots(listed, last) == {n \in listed : n > last}

\* what os.ReadDir of the snapshot directory returns
ReadDirOutcomes == {"listing", "not exist", "other error"}

\* before the first poll
NoPoll == [before |-> 0, processed |-> {}, errs |-> << >>, err |-> Nil]

\* checkForNewSnapshots, lines 334-384: one whole call.  failing are the
\* sequence numbers whose task file os.WriteFile fails on, partial those of
\* them whose task file is left cut short; the call takes less than a tick
\* of the clock.
checkForNewSnapshots(dir, now, failing, partial) ==
    LET listed == ListedSequences(files)
        maxSequence == MaxOf(listed)
        newSnapshots == NewSnapshots(listed, lastSequence)
        done == [n \in newSnapshots |-> processSnapshot(files, n, now, n \in failing)]
        written == {n \in newSnapshots : done[n].err = Nil}
        taskFiles == {TaskFile(done[n].result.TaskID) : n \in written \cup partial}
        Content(f) ==
            LET n == CHOOSE k \in written \cup partial : f = TaskFile(done[k].result.TaskID)
            IN IF n \in written THEN MarshalIndent(done[n].result) ELSE Truncated
    IN IF dir = "not exist"
       THEN /\ files = << >>
            /\ now = clock /\ failing = {}
            /\ lastPoll' = [before |-> lastSequence, processed |-> {},
                            errs |-> << >>, err |-> Nil]
            /\ UNCHANGED << lastSequence, files, clock, timesProcessed >>
       ELSE IF dir = "other error"
       THEN /\ now = clock /\ failing = {}
            /\ lastPoll' = [before |-> lastSequence, processed |-> {}, errs |-> << >>,
                            err |-> Errorf("failed to read snapshot directory",
                                           "input/output error", <<>>, <<>>)]
            /\ UNCHANGED << lastSequence, files, clock, timesProcessed >>
       ELSE /\ failing \subseteq {n \in newSnapshots : done[n].wrote}
            /\ (\A n \in newSnapshots : ~done[n].wrote) => now = clock
            /\ files' = [f \in DOMAIN files \cup taskFiles |->
                            IF f \in taskFiles THEN Content(f) ELSE files[f]]
            /\ clock' = now
            /\ timesProcessed' = [n \in 1..MaxSequence |->
                   IF n \in newSnapshots THEN Min(timesProcessed[n] + 1, 2)
                   ELSE timesProcessed[n]]
            /\ lastPoll' = [before |-> lastSequence, processed |-> newSnapshots,
                            errs |-> [n \in newSnapshots |-> done[n].err], err |-> Nil]
            /\ lastSequence' = maxSequence

\* variant: an error of the poll ends the loop
AfterTick_ReturnsError(e) ==
    IF e # Nil THEN [pc |-> "returned", err |-> e] ELSE [pc |-> "select", err |-> Nil]

\* lines 325-328: an error of the poll is logged and the loop goes on
AfterTick(e) == [pc |-> "select", err |-> Nil]

\* NewTaskSubmitter, and WatchAndSubmit entered with a live context
InitSubmitter ==
    /\ lastSequence = 0
    /\ ctxErr = Nil
    /\ watcher = [pc |-> "select", err |-> Nil]
    /\ lastPoll = NoPoll
    /\ timesProcessed = [n \in 1..MaxSequence |-> 0]
    /\ files = << >>
    /\ clock = 0
    /\ sequenceNum = 0 /\ prevHash = << >> /\ publishLog = << >>
    /\ EngineIdle /\ CallsIdle /\ WorkerIdle /\ ContractIdle

\* saveSnapshot and saveTrades of a publisher process, lines 131-164: the
\* files of one sequence number appear in the directory
PublisherWrites ==
    /\ \E n \in 1..MaxSequence :
          /\ SnapshotFile(n) \notin DOMAIN files
          /\ \E data \in SnapshotContents(n) :
                \/ files' = WriteFile(files, SnapshotFile(n), data)
                \/ \E ts \in TradesContents :
                      files' = WriteFile(WriteFile(files, SnapshotFile(n), data),
                                         TradesFile(n), ts)
    /\ UNCHANGED << clock, submitterVars >>
    /\ UNCHANGED outsideSubmitter

\* WatchAndSubmit, case <-ticker.C (lines 325-328)
Tick ==
    /\ watcher.pc = "select"
    /\ \E dir \in ReadDirOutcomes, now \in clock..MaxClock,
          failing \in SUBSET (1..MaxSequence) :
          \E partial \in SUBSET failing :
             /\ checkForNewSnapshots(dir, now, failing, partial)
             /\ watcher' = AfterTick(lastPoll'.err)
    /\ UNCHANGED ctxErr
    /\ UNCHANGED outsideSubmitter

\* the caller's cancel(), or the deadline of context.WithTimeout
CancelContext ==
    /\ ctxErr = Nil
    /\ ctxErr' \in {Canceled, DeadlineExceeded}
    /\ UNCHANGED << lastSequence, watcher, lastPoll, timesProcessed, files, clock >>
    /\ UNCHANGED outsideSubmitter

\* WatchAndSubmit, case <-ctx.Done() (lines 322-324)
StopWatching ==
    /\ watcher.pc = "select"
    /\ ctxErr # Nil
    /\ watcher' = [pc |-> "returned", err |-> ctxErr]
    /\ UNCHANGED << lastSequence, ctxErr, lastPoll, timesProcessed, files, clock >>
    /\ UNCHANGED outsideSubmitter

NextSubmitter == PublisherWrites \/ Tick \/ CancelContext \/ StopWatching

SpecSubmitter == InitSubmitter /\ [][NextSubmitter]_vars

\* the ticker keeps firing while WatchAndSubmit is in its loop, and select
\* takes each ready case sooner or later
FairSubmitter ==
    SpecSubmitter /\ WF_vars(Tick) /\ WF_vars(StopWatching)

\* ================================================================ properties
\* Helpers of the properties below.  They describe a trade against the book
\* without going through verifyTrade.

Returned == pc = "done"
AllSidesValid == \A k \in 1..Len(orders) : orders[k].Side \in {"buy", "sell"}

\* the trades the loop has consumed so far
Processed == 1..Len(tradeErrs)

HasID(os, id) == \E k \in 1..Len(os) : os[k].ID = id
\* position of the first order of os carrying id
Position(os, id) == CHOOSE k \in 1..Len(os) :
                        os[k].ID = id /\ \A m \in 1..(k - 1) : os[m].ID # id
Matched(os, id) == os[Position(os, id)]

\* the snapshot holds an order of that side with that ID
InSnapshot(side, id) ==
    \E k \in 1..Len(orders) : orders[k].Side = side /\ orders[k].ID = id

Resolves(t) == InSnapshot("buy", t.BuyOrderID) /\ InSnapshot("sell", t.SellOrderID)
MatchedBuy(t) == Matched(state.BuyOrders, t.BuyOrderID)
MatchedSell(t) == Matched(state.SellOrders, t.SellOrderID)

PriceOK(t) == MatchedBuy(t).Price >= t.Price /\ MatchedSell(t).Price <= t.Price
QuantityOK(t) ==
    t.Quantity <= MatchedBuy(t).Quantity /\ t.Quantity <= MatchedSell(t).Quantity

\* some order ahead of the matched one, at the same or a better price, was
\* placed strictly earlier
BuySkipped(t) ==
    \E j \in 1..(Position(state.BuyOrders, t.BuyOrderID) - 1) :
        /\ state.BuyOrders[j].Price >= MatchedBuy(t).Price
        /\ state.BuyOrders[j].Timestamp < MatchedBuy(t).Timestamp
SellSkipped(t) ==
    \E j \in 1..(Position(state.SellOrders, t.SellOrderID) - 1) :
        /\ state.SellOrders[j].Price <= MatchedSell(t).Price
        /\ state.SellOrders[j].Timestamp < MatchedSell(t).Timestamp
PriorityOK(t) == ~BuySkipped(t) /\ ~SellSkipped(t)

PassesAllChecks(t) == Resolves(t) /\ PriceOK(t) /\ QuantityOK(t) /\ PriorityOK(t)
Fails(t) == ~PassesAllChecks(t)

IDsOf(ts) == [k \in 1..Len(ts) |-> ts[k].ID]

\* ---------------------------------------------------------------- C1
\* C1: when every order of the snapshot is a buy or a sell, the returned
\* result has Valid = TRUE exactly when every trade of the batch passes
\* resolution, price, quantity and priority, and exactly when FailedTrades is
\* empty (the empty batch included).
C1_ValidIffAllPass ==
    (Returned /\ AllSidesValid) =>
        /\ result.Valid = (\A k \in 1..Len(trades) : PassesAllChecks(trades[k]))
        /\ result.Valid = (result.FailedTrades = <<>>)

\* a batch of two trades, one passing and one failing, has been judged invalid
C1_Witness ==
    /\ Returned /\ AllSidesValid
    /\ Len(trades) = 2
    /\ PassesAllChecks(trades[1]) /\ Fails(trades[2])
    /\ ~result.Valid

\* ---------------------------------------------------------------- C2
\* some order ahead of a matched order is priced at least as well as it
AheadAtPrice(t) ==
    \/ \E j \in 1..(Position(state.BuyOrders, t.BuyOrderID) - 1) :
           state.BuyOrders[j].Price >= MatchedBuy(t).Price
    \/ \E j \in 1..(Position(state.SellOrders, t.SellOrderID) - 1) :
           state.SellOrders[j].Price <= MatchedSell(t).Price

\* C2 (as the specification words it): a trade whose orders resolve and which
\* passes the price and quantity checks fails whenever some order strictly
\* ahead of its matched buy order in BuyOrders has price >= the matched
\* price, or some order strictly ahead of its matched sell order in
\* SellOrders has price <= the matched price; position and price alone decide.
C2_PriorityByPositionAndPrice ==
    AllSidesValid =>
        \A k \in Processed :
            (/\ Resolves(trades[k]) /\ PriceOK(trades[k]) /\ QuantityOK(trades[k])
             /\ AheadAtPrice(trades[k]))
                => tradeErrs[k] # Nil

\* C2 (amended): such a trade fails, with a time-priority violation, whenever
\* some order strictly ahead of its matched buy order has price >= the matched
\* price and a strictly earlier timestamp, or some order strictly ahead of its
\* matched sell order has price <= the matched price and a strictly earlier
\* timestamp; position, price and timestamp decide.
C2_PriorityByPositionPriceAndTime ==
    AllSidesValid =>
        \A k \in Processed :
            (/\ Resolves(trades[k]) /\ PriceOK(trades[k]) /\ QuantityOK(trades[k])
             /\ (BuySkipped(trades[k]) \/ SellSkipped(trades[k])))
                => tradeErrs[k].msg = "time priority failed"

\* a trade matching a sell order that an equally priced, earlier sell order
\* precedes was refused, its buy order heading the buy side
C2_Witness ==
    /\ AllSidesValid /\ Len(tradeErrs) = 1
    /\ Resolves(trades[1]) /\ PriceOK(trades[1]) /\ QuantityOK(trades[1])
    /\ ~BuySkipped(trades[1]) /\ SellSkipped(trades[1])
    /\ state.SellOrders[1].Price = MatchedSell(trades[1]).Price
    /\ tradeErrs[1].msg = "time priority failed"

\* ---------------------------------------------------------------- C3
\* the error verifyTrade returns for a buy-side priority violation
IsBuyPriorityFailure(e) ==
    e.msg = "time priority failed" /\ e.detail = "buy order has priority over"

\* the buy side holds an order at the matched price placed strictly earlier
EarlierAtSamePrice(t) ==
    \E j \in 1..Len(state.BuyOrders) :
        /\ state.BuyOrders[j].Price = MatchedBuy(t).Price
        /\ state.BuyOrders[j].Timestamp < MatchedBuy(t).Timestamp

\* the buy side is exactly the matched order A and a later order B at A's price
EarliestOfTwo(t) ==
    /\ Len(state.BuyOrders) = 2
    /\ \E j \in 1..2 :
        /\ state.BuyOrders[j].ID # MatchedBuy(t).ID
        /\ state.BuyOrders[j].Price = MatchedBuy(t).Price
        /\ MatchedBuy(t).Timestamp < state.BuyOrders[j].Timestamp

\* C3: of two buy orders A and B at one price, A placed strictly earlier than
\* B, a trade matching B that resolves and passes price and quantity fails
\* with a buy-side time-priority violation; when A and B are the whole buy
\* side, a trade matching A is never refused for buy-side priority, and is
\* accepted when its sell order heads the sell side.
C3_PriorityBoundary ==
    AllSidesValid =>
        \A k \in Processed :
            (Resolves(trades[k]) /\ PriceOK(trades[k]) /\ QuantityOK(trades[k])) =>
                /\ EarlierAtSamePrice(trades[k]) => IsBuyPriorityFailure(tradeErrs[k])
                /\ EarliestOfTwo(trades[k]) =>
                      /\ ~IsBuyPriorityFailure(tradeErrs[k])
                      /\ Position(state.SellOrders, trades[k].SellOrderID) = 1
                            => tradeErrs[k] = Nil

\* a trade matching the later of two equally priced buy orders was refused
C3_Witness ==
    /\ AllSidesValid /\ Len(tradeErrs) = 1
    /\ Resolves(trades[1]) /\ PriceOK(trades[1]) /\ QuantityOK(trades[1])
    /\ Len(state.BuyOrders) = 2
    /\ EarlierAtSamePrice(trades[1])
    /\ IsBuyPriorityFailure(tradeErrs[1])

\* ---------------------------------------------------------------- C4
\* the error verifyTrade returns for a price violation
IsPriceFailure(e) == e.msg = "price matching failed"

\* C4: a trade whose two orders resolve passes the price check exactly when
\* buyOrder.Price >= trade.Price and sellOrder.Price <= trade.Price; priced at
\* both order prices it passes, one unit above the buy price or one unit
\* below the sell price it fails.
C4_PriceRule ==
    AllSidesValid =>
        \A k \in Processed :
            Resolves(trades[k]) =>
                LET t == trades[k]
                    b == MatchedBuy(t)
                    s == MatchedSell(t)
                IN /\ IsPriceFailure(tradeErrs[k]) <=>
                          ~(b.Price >= t.Price /\ s.Price <= t.Price)
                   /\ (t.Price = b.Price /\ t.Price = s.Price)
                          => ~IsPriceFailure(tradeErrs[k])
                   /\ (t.Price = b.Price + 1 \/ t.Price = s.Price - 1)
                          => IsPriceFailure(tradeErrs[k])

\* a trade one unit above its buy order's price was refused on price, in a
\* book where the sell side alone would have let it through
C4_Witness ==
    /\ AllSidesValid /\ Len(tradeErrs) >= 1
    /\ Resolves(trades[1])
    /\ trades[1].Price = MatchedBuy(trades[1]).Price + 1
    /\ MatchedSell(trades[1]).Price <= trades[1].Price
    /\ IsPriceFailure(tradeErrs[1])

\* ---------------------------------------------------------------- C5
\* the error verifyTrade returns for a quantity violation
IsQuantityFailure(e) == e.msg = "quantity constraints failed"

\* C5: a trade that resolves and passes the price check passes the quantity
\* check exactly when trade.Quantity <= buyOrder.Quantity and
\* trade.Quantity <= sellOrder.Quantity; the smaller of the two order
\* quantities passes, one unit more fails.
C5_QuantityRule ==
    AllSidesValid =>
        \A k \in Processed :
            (Resolves(trades[k]) /\ PriceOK(trades[k])) =>
                LET t == trades[k]
                    b == MatchedBuy(t)
                    s == MatchedSell(t)
                    least == Min(b.Quantity, s.Quantity)
                IN /\ IsQuantityFailure(tradeErrs[k]) <=>
                          ~(t.Quantity <= b.Quantity /\ t.Quantity <= s.Quantity)
                   /\ t.Quantity = least => ~IsQuantityFailure(tradeErrs[k])
                   /\ t.Quantity = least + 1 => IsQuantityFailure(tradeErrs[k])

\* a trade one unit over the smaller order quantity (the sell order's) failed
C5_Witness ==
    /\ AllSidesValid /\ Len(tradeErrs) >= 1
    /\ Resolves(trades[1]) /\ PriceOK(trades[1])
    /\ MatchedSell(trades[1]).Quantity < MatchedBuy(trades[1]).Quantity
    /\ trades[1].Quantity = MatchedSell(trades[1]).Quantity + 1
    /\ IsQuantityFailure(tradeErrs[1])

\* ---------------------------------------------------------------- C6
\* the errors verifyTrade returns for an unresolved order
BuyNotFound(t) == Errorf("buy order not found", "", << t.BuyOrderID >>, <<>>)
SellNotFound(t) == Errorf("sell order not found", "", << t.SellOrderID >>, <<>>)

\* C6: the buy order is looked up among the snapshot's buy orders only and the
\* sell order among its sell orders only; a trade whose BuyOrderID is not
\* there fails with "buy order not found" (also when the sell order is
\* missing too), one whose SellOrderID alone is missing fails with "sell
\* order not found", no other trade fails for a missing order, and the call
\* still returns without error.
C6_OrderResolution ==
    AllSidesValid =>
        /\ \A k \in Processed :
              LET t == trades[k] IN
              /\ ~InSnapshot("buy", t.BuyOrderID) => tradeErrs[k] = BuyNotFound(t)
              /\ (InSnapshot("buy", t.BuyOrderID) /\ ~InSnapshot("sell", t.SellOrderID))
                    => tradeErrs[k] = SellNotFound(t)
              /\ Resolves(t) =>
                    tradeErrs[k].msg \notin {"buy order not found", "sell order not found"}
        /\ Returned => (err = Nil /\ ~result.isNil)

\* a trade naming as its buy order an ID that only a sell order carries, and
\* as its sell order an ID no sell order carries, was reported for the buy side
C6_Witness ==
    /\ AllSidesValid /\ Returned /\ Len(trades) = 1
    /\ InSnapshot("sell", trades[1].BuyOrderID)
    /\ ~InSnapshot("buy", trades[1].BuyOrderID)
    /\ ~InSnapshot("sell", trades[1].SellOrderID)
    /\ tradeErrs[1] = BuyNotFound(trades[1])
    /\ err = Nil

FailingTrades == {k \in 1..Len(trades) : Fails(trades[k])}

\* C8: when every order has a valid side, whatever the trades violate,
\* VerifySnapshot returns no error and a result in which every failing trade
\* is listed: FailedTrades has one entry per failing trade and holds its ID.
C8_FailuresAreData ==
    (Returned /\ AllSidesValid) =>
        /\ err = Nil
        /\ ~result.isNil
        /\ Len(result.FailedTrades) = Cardinality(FailingTrades)
        /\ \A k \in FailingTrades :
              \E j \in 1..Len(result.FailedTrades) : result.FailedTrades[j] = trades[k].ID

\* a batch of a trade with a missing order and a trade refused on price
\* returned without error, both trades listed
C8_Witness ==
    /\ Returned /\ AllSidesValid /\ err = Nil
    /\ Len(trades) = 2
    /\ ~Resolves(trades[1])
    /\ Resolves(trades[2]) /\ ~PriceOK(trades[2])
    /\ trades[1].ID # trades[2].ID
    /\ Len(result.FailedTrades) = 2

\* ---------------------------------------------------------------- C9
\* C9: at every point of the loop and at return, FailedTrades is the sequence
\* of IDs of the failing trades among those consumed, in input order.
C9_FailedTradesInInputOrder ==
    (AllSidesValid /\ pc # "build") =>
        result.FailedTrades = IDsOf(SelectSeq(SubSeq(trades, 1, idx), Fails))

\* two failing trades, the first carrying the later ID and naming an order
\* sorted behind the one the second names, were listed first to last
C9_Witness ==
    /\ Returned /\ AllSidesValid
    /\ Len(trades) = 2 /\ Len(state.BuyOrders) = 2
    /\ trades[1].ID = "t2" /\ trades[2].ID = "t1"
    /\ HasID(state.BuyOrders, trades[1].BuyOrderID)
    /\ HasID(state.BuyOrders, trades[2].BuyOrderID)
    /\ Position(state.BuyOrders, trades[1].BuyOrderID) = 2
    /\ Position(state.BuyOrders, trades[2].BuyOrderID) = 1
    /\ result.FailedTrades = << "t2", "t1" >>

\* ---------------------------------------------------------------- C10
\* positions of the failing trades among those consumed, and the first of them
FailedSoFar == {k \in 1..idx : Fails(trades[k])}
FirstFailed == CHOOSE k \in FailedSoFar : \A m \in FailedSoFar : k <= m

\* C10: at every point of the loop and at return, ErrorMessage is empty when
\* no consumed trade has failed, and otherwise is the message of the first
\* failing trade in input order, whatever failed after it.
C10_FirstErrorMessageKept ==
    (AllSidesValid /\ pc # "build") =>
        /\ (result.ErrorMessage = EmptyString) <=> (FailedSoFar = {})
        /\ FailedSoFar # {} =>
              result.ErrorMessage =
                  Sprintf("trade failed", trades[FirstFailed].ID, tradeErrs[FirstFailed])

\* two trades failed for different reasons and the message is the first one's
C10_Witness ==
    /\ Returned /\ AllSidesValid
    /\ Len(trades) = 2
    /\ tradeErrs[1] # Nil /\ tradeErrs[2] # Nil
    /\ tradeErrs[1].msg # tradeErrs[2].msg
    /\ trades[1].ID # trades[2].ID
    /\ result.ErrorMessage = Sprintf("trade failed", trades[1].ID, tradeErrs[1])

\* ---------------------------------------------------------------- C11
\* number of positions of s holding the order o
Count(s, o) == Cardinality({k \in 1..Len(s) : s[k] = o})
\* s holds the orders of os that have that side, each as often as os does,
\* and nothing else
ExactlySide(s, os, side) ==
    /\ \A k \in 1..Len(s) : s[k].Side = side /\ Count(s, s[k]) = Count(os, s[k])
    /\ \A k \in 1..Len(os) : os[k].Side = side => Count(s, os[k]) = Count(os, os[k])
\* price descending, equal prices by timestamp ascending
BuySorted(s) ==
    \A i, j \in 1..Len(s) :
        i < j => \/ s[i].Price > s[j].Price
                 \/ s[i].Price = s[j].Price /\ s[i].Timestamp <= s[j].Timestamp
\* price ascending, equal prices by timestamp ascending
SellSorted(s) ==
    \A i, j \in 1..Len(s) :
        i < j => \/ s[i].Price < s[j].Price
                 \/ s[i].Price = s[j].Price /\ s[i].Timestamp <= s[j].Timestamp

\* C11: once the state is built from a snapshot whose orders are all buys or
\* sells, BuyOrders holds exactly the buy orders of the snapshot, by price
\* descending and at equal price by timestamp ascending, and SellOrders holds
\* exactly the sell orders, by price ascending and at equal price by timestamp
\* ascending.
C11_BookSortedBySide ==
    (pc # "build" /\ AllSidesValid) =>
        /\ ExactlySide(state.BuyOrders, orders, "buy")
        /\ ExactlySide(state.SellOrders, orders, "sell")
        /\ BuySorted(state.BuyOrders)
        /\ SellSorted(state.SellOrders)

\* three buys arrive with the best price in the middle and the two others
\* tied on price in reverse time order; the build moves all three
C11_Witness ==
    /\ pc = "loop"
    /\ Len(orders) = 3
    /\ \A k \in 1..3 : orders[k].Side = "buy"
    /\ orders[1].Price = orders[3].Price
    /\ orders[1].Timestamp > orders[3].Timestamp
    /\ orders[2].Price > orders[1].Price
    /\ state.BuyOrders = << orders[2], orders[3], orders[1] >>

\* ---------------------------------------------------------------- C12
\* the order lists that hold the orders of os in another input order
Reorderings(os) ==
    {[k \in 1..Len(os) |-> os[f[k]]] : f \in Permutations(1..Len(os))}
\* the state the build returns for an order list
BookOf(os) == buildOrderbookState(os)[1]
\* what the two sorts compare: the (price, timestamp) of each position
SortKeys(s) == [k \in 1..Len(s) |-> << s[k].Price, s[k].Timestamp >>]
\* two different orders of one side share both price and timestamp
HasFullTie(os) ==
    \E i, j \in 1..Len(os) :
        /\ os[i] # os[j]
        /\ os[i].Side = os[j].Side
        /\ os[i].Price = os[j].Price
        /\ os[i].Timestamp = os[j].Timestamp

\* C12 as stated: the state built from a snapshot equals the state built from
\* every reordering of the same orders, ties on price and timestamp included.
C12_SameBookForEveryInputOrder ==
    (pc # "build" /\ AllSidesValid) =>
        \A p \in Reorderings(orders) : BookOf(p) = state

\* C12 as amended: the state built from a snapshot and the state built from
\* any reordering of the same orders agree on the (price, timestamp) of every
\* position of BuyOrders and of SellOrders, and are the same sequences when no
\* two different orders of one side share both price and timestamp.
C12_SameBookUpToFullTies ==
    (pc # "build" /\ AllSidesValid) =>
        \A p \in Reorderings(orders) :
            /\ SortKeys(BookOf(p).BuyOrders) = SortKeys(state.BuyOrders)
            /\ SortKeys(BookOf(p).SellOrders) = SortKeys(state.SellOrders)
            /\ ~HasFullTie(orders) => BookOf(p) = state

\* three sells that the build reorders, two of them tied on price and
\* timestamp: a reordering of the input gives another sequence with the same
\* keys
C12_Witness ==
    /\ pc = "loop"
    /\ Len(orders) = 3
    /\ \A k \in 1..3 : orders[k].Side = "sell"
    /\ HasFullTie(orders)
    /\ state.SellOrders # orders
    /\ \E p \in Reorderings(orders) :
          /\ BookOf(p) # state
          /\ SortKeys(BookOf(p).SellOrders) = SortKeys(state.SellOrders)

\* ---------------------------------------------------------------- C13
\* two calls were made with the same trades and the same snapshot
SameArguments(c, d) ==
    calls[c].orders = calls[d].orders /\ calls[c].trades = calls[d].trades
\* what a returned call hands back
Outcome(c) == << calls[c].result, calls[c].err >>

\* C13: two calls made with the same trades and the same snapshot, on one
\* verifier or on two verifiers created independently, one after the other or
\* interleaved, return the same VerificationResult (Valid, VerifiedTrades,
\* TotalTrades, FailedTrades, ErrorMessage) and the same error.
C13_SameArgumentsSameResult ==
    \A c, d \in Calls :
        (calls[c].pc = "done" /\ calls[d].pc = "done" /\ SameArguments(c, d)) =>
            Outcome(c) = Outcome(d)

\* both calls got the same book and the same two trades, one passing and one
\* failing; the second call started on the same verifier after the first had
\* returned, and returned the same result
C13_Witness ==
    /\ calls[1].pc = "done" /\ calls[2].pc = "done"
    /\ calls[1].verifier = calls[2].verifier
    /\ calls[2].prior = {1}
    /\ SameArguments(1, 2)
    /\ Len(calls[1].trades) = 2
    /\ calls[1].result.VerifiedTrades = 1
    /\ Len(calls[1].result.FailedTrades) = 1
    /\ calls[2].result = calls[1].result

\* ---------------------------------------------------------------- C14
\* a step leaves every call's arguments and receiver, and every verifier, as
\* they were
ArgumentsAndVerifiersKept ==
    /\ verifiers' = verifiers
    /\ \A c \in Calls :
          /\ calls'[c].orders = calls[c].orders
          /\ calls'[c].trades = calls[c].trades
          /\ calls'[c].verifier = calls[c].verifier
\* a call that started after another call had returned hands back what
\* VerifySnapshot gives for its own arguments
LaterCallStartsAfresh ==
    \A c \in Calls :
        (calls[c].pc = "done" /\ calls[c].prior # {}) =>
            Outcome(c) = VerifySnapshot(calls[c].trades, calls[c].orders)

\* C14: no step of VerifySnapshot changes the snapshot's order sequence, the
\* trades list or the verifier, and a call made after an earlier call has
\* returned gives the result its own arguments determine, whatever the
\* earlier call was given.
C14_InputsKeptNoStateCarried ==
    [][ArgumentsAndVerifiersKept]_vars /\ []LaterCallStartsAfresh

\* the second call started on the same verifier after the first had returned
\* with two verified trades; its snapshot lists two buys worst price first,
\* the built state holds them best price first, and the snapshot still lists
\* them as given; its one trade finds no sell order and fails
C14_Witness ==
    /\ calls[2].pc = "done"
    /\ calls[2].prior = {1}
    /\ calls[2].verifier = calls[1].verifier
    /\ calls[1].result.Valid /\ calls[1].result.VerifiedTrades = 2
    /\ Len(calls[2].orders) = 2
    /\ calls[2].orders[1].Side = "buy" /\ calls[2].orders[2].Side = "buy"
    /\ calls[2].orders[1].Price < calls[2].orders[2].Price
    /\ calls[2].state.BuyOrders = << calls[2].orders[2], calls[2].orders[1] >>
    /\ Len(calls[2].trades) = 1
    /\ calls[2].result.FailedTrades = << calls[2].trades[1].ID >>

\* ---------------------------------------------------------------- C15
\* the result of verifying the trade as a batch of its own on the same snapshot
AloneResult(t) == VerifySnapshot(<< t >>, orders)[1]

\* C15: the outcome of every consumed trade is the outcome the same trade has
\* as a batch of its own on the same snapshot, pass or fail and with the same
\* message, whatever the other trades of the batch are; in particular a trade
\* whose quantity is within the posted quantity of both its orders is not
\* failed on quantity, however much earlier trades took from the same orders.
C15_TradeOutcomeIgnoresOtherTrades ==
    (AllSidesValid /\ pc # "build") =>
        \A k \in Processed :
            /\ (tradeErrs[k] = Nil) <=> AloneResult(trades[k]).Valid
            /\ tradeErrs[k] # Nil =>
                  AloneResult(trades[k]).ErrorMessage =
                      Sprintf("trade failed", trades[k].ID, tradeErrs[k])
            /\ (Resolves(trades[k]) /\ PriceOK(trades[k]) /\ QuantityOK(trades[k])) =>
                  ~IsQuantityFailure(tradeErrs[k])

\* two trades of one batch each take the full posted quantity of the same buy
\* order and the same sell order, and both are verified
C15_Witness ==
    /\ Returned /\ AllSidesValid
    /\ Len(trades) = 2
    /\ trades[1].BuyOrderID = trades[2].BuyOrderID
    /\ trades[1].SellOrderID = trades[2].SellOrderID
    /\ Resolves(trades[1])
    /\ \A k \in 1..2 :
          /\ trades[k].Quantity = MatchedBuy(trades[k]).Quantity
          /\ trades[k].Quantity = MatchedSell(trades[k]).Quantity
    /\ MatchedBuy(trades[1]).Quantity = MaxQuantity
    /\ result.Valid
    /\ result.VerifiedTrades = 2

\* ---------------------------------------------------------------- C16
\* the two calls ran concurrently: neither had returned when the other took
\* its first step
Overlapped == \A c \in Calls : calls[c].pc # "build" /\ calls[c].prior = {}

\* a step is taken by one call and leaves the other call's arguments, locals
\* and return values as they were
StepOfOneCall == \E c \in Calls : \A d \in Calls \ {c} : calls'[d] = calls[d]

\* what a call in its loop holds after idx iterations when it runs on its own
AloneSoFar(c) ==
    LET me == calls[c]
        t == SubSeq(me.trades, 1, me.idx)
    IN [state |-> BookOf(me.orders),
        result |-> [VerifySnapshot(t, me.orders)[1] EXCEPT
                       !.TotalTrades = Len(me.trades)]]

\* C16: in every interleaving of the steps of two calls on one verifier or on
\* two, each step changes one call only; a call in its loop holds the state
\* and the partial result it would hold running alone, and a returned call
\* hands back the result and error VerifySnapshot gives for its own
\* arguments.
C16_ConcurrentCallsDoNotInterfere ==
    /\ [][StepOfOneCall]_vars
    /\ [](\A c \in Calls :
            /\ calls[c].pc = "loop" =>
                  /\ calls[c].state = AloneSoFar(c).state
                  /\ calls[c].result = AloneSoFar(c).result
            /\ calls[c].pc = "done" =>
                  Outcome(c) = VerifySnapshot(calls[c].trades, calls[c].orders))

\* two calls on the same verifier with different snapshots and batches ran
\* interleaved; one verified both its trades, the other failed one of its
\* trades
C16_Witness ==
    /\ Overlapped
    /\ calls[1].verifier = calls[2].verifier
    /\ calls[1].pc = "done" /\ calls[2].pc = "done"
    /\ calls[1].orders # calls[2].orders
    /\ calls[1].trades # calls[2].trades
    /\ BookOf(calls[1].orders) # BookOf(calls[2].orders)
    /\ calls[1].result.Valid /\ calls[1].result.VerifiedTrades = 2
    /\ ~calls[2].result.Valid /\ calls[2].result.VerifiedTrades = 1
    /\ Len(calls[2].result.FailedTrades) = 1

\* ---------------------------------------------------------------- C17
\* some order of the snapshot carries that ID, whatever its side
Listed(input, id) ==
    \E j \in 1..Len(input.Snapshot.Orders) : input.Snapshot.Orders[j].ID = id
\* the conditions on a parsed request
WellFormed(input) ==
    /\ input.SnapshotHash # ""
    /\ input.TradeBatchID # ""
    /\ input.Snapshot.SequenceNumber # 0
    /\ input.Snapshot.MarketID # ""
    /\ Len(input.Trades) > 0
    /\ Len(input.Snapshot.Orders) > 0
    /\ \A k \in 1..Len(input.Trades) :
          /\ Listed(input, input.Trades[k].BuyOrderID)
          /\ Listed(input, input.Trades[k].SellOrderID)

\* C17: once ValidateTask has returned on a request whose payload parses, it
\* has returned no error exactly when snapshotHash and tradeBatchID are
\* non-empty, sequenceNumber is non-zero, marketID is non-empty, trades and
\* orders are non-empty and the buyOrderID and the sellOrderID of every trade
\* are each the ID of some order of the snapshot; otherwise it has returned an
\* error.
C17_ValidateTaskAcceptsIffWellFormed ==
    (validated /\ request.json = "ok") =>
        ((validateErr = Nil) <=> WellFormed(request.input))

\* ValidateTask has accepted a request with two orders of different IDs and
\* two trades, each trade naming both orders
C17_Witness ==
    /\ validated
    /\ validateErr = Nil
    /\ request.json = "ok"
    /\ Len(request.input.Snapshot.Orders) = 2
    /\ request.input.Snapshot.Orders[1].ID # request.input.Snapshot.Orders[2].ID
    /\ Len(request.input.Trades) = 2
    /\ \A k \in 1..2 : request.input.Trades[k].BuyOrderID # request.input.Trades[k].SellOrderID

\* ---------------------------------------------------------------- C18
\* HandleTask has returned a response carrying a verification result
VerdictProduced == ~response.isNil

\* C18: once ValidateTask has rejected a request, the task worker returns no
\* response carrying a verification result for it: no request that
\* ValidateTask rejects gets a verdict.
C18_RejectedRequestGetsNoVerdict ==
    (validated /\ validateErr # Nil) => ~VerdictProduced

\* ---------------------------------------------------------------- C19
\* VerifySnapshot has returned to HandleTask with an error
EngineReportedError == pc = "done" /\ err # Nil

\* C19: when VerifySnapshot has returned an error (an order with an invalid
\* side), HandleTask returns the error "verification failed" wrapping it and
\* no response, at every point up to and after its return; so every response
\* carries the result of a call that returned no error, and a response with
\* valid=false names at least one failed trade.
C19_StructuralErrorGivesNoResponse ==
    /\ EngineReportedError => response = NoResponse
    /\ (EngineReportedError /\ hpc = "returned") =>
          handleErr = Errorf("verification failed", err.msg, err.ids, err.nums)
    /\ VerdictProduced =>
          /\ err = Nil /\ handleErr = Nil
          /\ response.Result.verification_result = result
          /\ ~result.Valid => result.FailedTrades # <<>>

\* a parsed request whose second order has an unrecognised side: the engine
\* returned an error with a valid=false result, and HandleTask returned the
\* wrapped error and no response
C19_Witness ==
    /\ hpc = "returned"
    /\ EngineReportedError
    /\ Len(orders) = 2 /\ ValidSide(orders[1]) /\ ~ValidSide(orders[2])
    /\ Len(trades) = 2
    /\ ~result.isNil /\ ~result.Valid
    /\ handleErr.msg = "verification failed"
    /\ handleErr.detail = "invalid order side"
    /\ response = NoResponse

\* ---------------------------------------------------------------- C20
\* the sender may challenge the settlement now: an authorized challenger, a
\* stored settlement, Active, and not later than seven days after it was
\* registered
ChallengeAllowed(sender, id) ==
    /\ authorizedChallengeers[sender]
    /\ id \in DOMAIN settlements
    /\ settlements[id].status = "Active"
    /\ blockTimestamp <= settlements[id].timestamp + CHALLENGE_PERIOD

\* what a challengeSettlement transaction has done when it is over
ChallengeOutcome(sender, id) ==
    IF ChallengeAllowed(sender, id)
    THEN /\ ~lastTx'.reverted
         /\ settlements' = [settlements EXCEPT ![id].status = "Challenged"]
    ELSE /\ lastTx'.reverted
         /\ settlements' = settlements
         /\ challenges' = challenges

\* C20: a challengeSettlement transaction succeeds exactly when its sender is
\* an authorized challenger, the settlement exists, its status is Active and
\* block.timestamp is not after registration time + 7 days; it then sets the
\* status to Challenged and changes nothing else of any settlement; in every
\* other case it reverts and leaves the settlements and challenges unchanged.
C20_ChallengeOnlyWhenAllowed ==
    [][\A sender \in Addresses, id \in SettlementIds :
          challengeSettlement(sender, id, "proof") => ChallengeOutcome(sender, id)]_vars

\* a settlement registered by the operator was challenged by the authorized
\* challenger in the block at its deadline, and is Challenged
C20_Witness ==
    \E id \in DOMAIN settlements, c \in DOMAIN challenges :
        /\ settlements[id].status = "Challenged"
        /\ settlements[id].operator = "operator"
        /\ challenges[c].settlementId = id
        /\ challenges[c].challenger = "challenger"
        /\ challenges[c].timestamp = settlements[id].timestamp + CHALLENGE_PERIOD
        /\ blockTimestamp = challenges[c].timestamp
        /\ ~lastTx.reverted

\* ---------------------------------------------------------------- C21
\* the challenge may be resolved by the sender now: the owner, a challenge
\* not yet resolved, against a settlement that is Challenged
ResolveAllowed(sender, c) ==
    /\ sender = owner
    /\ c \in DOMAIN challenges
    /\ ~challenges[c].resolved
    /\ challenges[c].settlementId \in DOMAIN settlements
    /\ settlements[challenges[c].settlementId].status = "Challenged"

\* half of the operator's recorded stake, rounded down
HalfStake(operator) == operatorStakes[operator] \div 2

\* the balances after the contract has paid the amount to the account
Paid(account, amount) ==
    [a \in DOMAIN balances |->
        balances[a] + (IF a = account THEN amount ELSE 0)
                    - (IF a = Contract THEN amount ELSE 0)]

\* what a resolveChallenge(c, true) transaction has done when it is over
SlashOutcome(sender, c) ==
    IF ResolveAllowed(sender, c)
    THEN LET id == challenges[c].settlementId
             operator == settlements[id].operator
         IN /\ ~lastTx'.reverted
            /\ settlements'[id].status = "Slashed"
            /\ operatorStakes' =
                  [operatorStakes EXCEPT ![operator] = @ - HalfStake(operator)]
            /\ balances' = Paid(challenges[c].challenger, HalfStake(operator))
    ELSE /\ lastTx'.reverted
         /\ UNCHANGED << settlements, challenges, operatorStakes, balances >>

\* C21: a resolveChallenge transaction with successful = true goes through
\* only when its sender is the owner and the challenged settlement is
\* Challenged (and the challenge is not yet resolved); it then sets the
\* settlement's status to Slashed, takes half of the operator's stake of that
\* moment, rounded down, off the operator's recorded stake and pays the same
\* amount to the challenger; otherwise it reverts and changes nothing.
C21_SuccessfulResolutionSlashesHalf ==
    [][\A sender \in Addresses, c \in ChallengeIds :
          resolveChallenge(sender, c, TRUE) => SlashOutcome(sender, c)]_vars

\* the operator staked 4, withdrew 1, was challenged, and the challenge was
\* resolved as successful: half of 3 rounded down went to the challenger
C21_Witness ==
    \E id \in DOMAIN settlements, c \in DOMAIN challenges :
        /\ settlements[id].status = "Slashed"
        /\ settlements[id].operator = "operator"
        /\ challenges[c].settlementId = id
        /\ challenges[c].challenger = "challenger"
        /\ challenges[c].resolved /\ challenges[c].successful
        /\ operatorStakes["operator"] = 2
        /\ balances["operator"] = InitialBalance - 3
        /\ balances["challenger"] = InitialBalance + 1
        /\ balances[Contract] = 2
        /\ ~lastTx.reverted

\* ---------------------------------------------------------------- C22
\* what a resolveChallenge(c, false) transaction that went through has done
DismissOutcome(c) ==
    LET id == challenges[c].settlementId
    IN /\ settlements' = [settlements EXCEPT ![id].status = "Active"]
       /\ challenges' = [challenges EXCEPT ![c].resolved = TRUE,
                                           ![c].successful = FALSE]
       /\ operatorStakes' = operatorStakes
       /\ balances' = balances

\* C22: a resolveChallenge transaction with successful = false that goes
\* through sets the challenged settlement back to Active, marks the challenge
\* resolved and not successful, and leaves every operator's stake and every
\* account's balance as they were.
C22_UnsuccessfulResolutionRestoresActive ==
    [][\A sender \in Addresses, c \in ChallengeIds :
          (resolveChallenge(sender, c, FALSE) /\ ~lastTx'.reverted)
              => (ResolveAllowed(sender, c) /\ DismissOutcome(c))]_vars

\* the operator's settlement was challenged and the challenge was resolved as
\* unsuccessful: the settlement is Active again and the whole stake is still
\* recorded and still held by the contract
C22_Witness ==
    \E id \in DOMAIN settlements, c \in DOMAIN challenges :
        /\ settlements[id].status = "Active"
        /\ settlements[id].operator = "operator"
        /\ challenges[c].settlementId = id
        /\ challenges[c].challenger = "challenger"
        /\ challenges[c].resolved /\ ~challenges[c].successful
        /\ operatorStakes["operator"] = MIN_STAKE + 1
        /\ balances["operator"] = InitialBalance - (MIN_STAKE + 1)
        /\ balances["challenger"] = InitialBalance
        /\ balances[Contract] = MIN_STAKE + 1
        /\ ~lastTx.reverted

\* ---------------------------------------------------------------- C23
\* what a registerSettlement transaction has done when it is over
RegisterOutcome(sender, value, txId) ==
    LET id == Keccak256(txId, sender, blockTimestamp)
    IN IF value >= MIN_STAKE /\ id \notin DOMAIN settlements
       THEN /\ ~lastTx'.reverted
            /\ DOMAIN settlements' = DOMAIN settlements \cup {id}
            /\ \A other \in DOMAIN settlements : settlements'[other] = settlements[other]
            /\ settlements'[id].status = "Active"
            /\ settlements'[id].operator = sender
            /\ settlements'[id].challengeDeadline = blockTimestamp + CHALLENGE_PERIOD
            /\ operatorStakes' = [operatorStakes EXCEPT ![sender] = @ + value]
       ELSE /\ lastTx'.reverted
            /\ UNCHANGED << settlements, operatorStakes, balances >>

\* C23: a registerSettlement transaction goes through only when at least the
\* minimum stake of 1 ether is attached and no settlement with the same txId,
\* caller and block timestamp is stored; it then stores a settlement with
\* status Active, operator = caller and challengeDeadline = block.timestamp +
\* 7 days and adds exactly the attached value to the caller's recorded stake;
\* with less than 1 ether, or with the same txId, caller and timestamp again,
\* it reverts and changes nothing.
C23_RegisterNeedsStakeAndFreshId ==
    [][\A sender \in Addresses, value \in StakeValues, txId \in TxIds :
          registerSettlement(sender, value, txId, "snapshot", "batch")
              => RegisterOutcome(sender, value, txId)]_vars

\* the operator registered in the second block with more than the minimum
\* stake attached: the settlement is Active with its deadline seven days
\* later and the whole attached value is the operator's recorded stake
C23_Witness ==
    \E id \in DOMAIN settlements :
        /\ settlements[id].operator = "operator"
        /\ settlements[id].status = "Active"
        /\ settlements[id].timestamp = 1
        /\ settlements[id].challengeDeadline = 1 + CHALLENGE_PERIOD
        /\ blockTimestamp = 1
        /\ operatorStakes["operator"] = MIN_STAKE + 1
        /\ balances[Contract] = MIN_STAKE + 1
        /\ ~lastTx.reverted

\* ---------------------------------------------------------------- C24
\* one of the operator's settlements is under a challenge not yet resolved
HasActiveChallenge(operator) ==
    \E id \in DOMAIN settlements :
        /\ settlements[id].operator = operator
        /\ settlements[id].status = "Challenged"

\* C24: a withdrawStake transaction goes through only if the sender has no
\* active (unresolved) challenge against any of its settlements: while one of
\* the sender's settlements is Challenged, withdrawStake reverts.
C24_NoWithdrawalWhileChallenged ==
    [][\A sender \in Addresses, amount \in {1, MIN_STAKE} :
          (withdrawStake(sender, amount) /\ HasActiveChallenge(sender))
              => lastTx'.reverted]_vars

\* ---------------------------------------------------------------- C25
\* the stage a trade's error came from
StageOf(e) ==
    IF e = Nil THEN "none"
    ELSE IF e.msg \in {"buy order not found", "sell order not found"} THEN "Resolve"
    ELSE IF e.msg = "price matching failed" THEN "Price"
    ELSE IF e.msg = "quantity constraints failed" THEN "Quantity"
    ELSE IF e.msg = "time priority failed" THEN "Priority"
    ELSE "other"

\* the earliest stage, in the order Resolve, Price, Quantity, Priority, whose
\* rule the trade violates
EarliestViolated(t) ==
    IF ~Resolves(t) THEN "Resolve"
    ELSE IF ~PriceOK(t) THEN "Price"
    ELSE IF ~QuantityOK(t) THEN "Quantity"
    ELSE IF ~PriorityOK(t) THEN "Priority"
    ELSE "none"

\* the number of rules a trade with resolved orders violates
Violations(t) ==
    (IF PriceOK(t) THEN 0 ELSE 1) + (IF QuantityOK(t) THEN 0 ELSE 1)
        + (IF PriorityOK(t) THEN 0 ELSE 1)

\* C25: every consumed trade carries the reason of the earliest stage it
\* violates in the order Resolve, Price, Quantity, Priority, and of no later
\* stage, however many rules it violates; and FailedTrades has exactly one
\* entry per failing trade consumed.
C25_EarliestStageReportedOnce ==
    (AllSidesValid /\ pc # "build") =>
        /\ \A k \in Processed : StageOf(tradeErrs[k]) = EarliestViolated(trades[k])
        /\ Len(result.FailedTrades) = Cardinality({k \in Processed : tradeErrs[k] # Nil})

\* a trade over its buy order's price and quantity, matched to a sell order
\* that an earlier one precedes, was refused on price and listed once
C25_Witness ==
    /\ Returned /\ AllSidesValid /\ Len(trades) = 1
    /\ Resolves(trades[1])
    /\ Violations(trades[1]) = 3
    /\ StageOf(tradeErrs[1]) = "Price"
    /\ result.FailedTrades = << trades[1].ID >>

\* ---------------------------------------------------------------- C26
\* the trades the result counts, verified or failed
Counted == result.VerifiedTrades + Len(result.FailedTrades)

\* C26: a result returned without error has TotalTrades = the number of
\* trades given and VerifiedTrades + the length of FailedTrades = TotalTrades;
\* while the loop runs, that sum never exceeds the number of trades consumed
\* so far.
C26_CountsAddUp ==
    /\ (Returned /\ err = Nil) =>
          /\ result.TotalTrades = Len(trades)
          /\ Counted = result.TotalTrades
    /\ pc = "loop" => Counted <= idx

\* a batch of one passing and one failing trade returned without error,
\* counted as one verified and one failed of two
C26_Witness ==
    /\ Returned /\ err = Nil
    /\ Len(trades) = 2
    /\ tradeErrs[1] = Nil /\ tradeErrs[2] # Nil
    /\ result.TotalTrades = 2
    /\ result.VerifiedTrades = 1
    /\ Len(result.FailedTrades) = 1

\* ---------------------------------------------------------------- C27
\* the IDs the trades of the batch name
ReferencedIDs ==
    {trades[k].BuyOrderID : k \in 1..Len(trades)}
        \cup {trades[k].SellOrderID : k \in 1..Len(trades)}

\* C27: when any order of the snapshot, at whatever position and whether or
\* not a trade names it, has a side that is neither buy nor sell, the build
\* is the call's only step: it ends the call with no OrderbookState, and no
\* trade is evaluated or counted as verified or failed.
C27_InvalidSideAbortsBuild ==
    (~AllSidesValid /\ pc # "build") =>
        /\ pc = "done"
        /\ state.isNil
        /\ idx = 0
        /\ tradeErrs = <<>>
        /\ result.VerifiedTrades = 0
        /\ result.FailedTrades = <<>>

\* the call ended on a snapshot whose second of three orders has an
\* unrecognised side and an ID no trade names, the one trade of the batch
\* naming the buy and the sell order around it
C27_Witness ==
    /\ Returned
    /\ Len(orders) = 3 /\ Len(trades) = 1
    /\ IsBuy(orders[1]) /\ ~ValidSide(orders[2]) /\ IsSell(orders[3])
    /\ orders[2].ID \notin ReferencedIDs
    /\ trades[1].BuyOrderID = orders[1].ID
    /\ trades[1].SellOrderID = orders[3].ID
    /\ state.isNil
    /\ tradeErrs = <<>>

\* ---------------------------------------------------------------- C28
\* the snapshot of the request holds an order of that side with that ID
ListedOn(input, side, id) ==
    \E j \in 1..Len(input.Snapshot.Orders) :
        /\ input.Snapshot.Orders[j].Side = side
        /\ input.Snapshot.Orders[j].ID = id

\* the trade names as its buy order an ID that only sell orders carry, or as
\* its sell order an ID that only buy orders carry
CrossSide(input, t) ==
    \/ ListedOn(input, "sell", t.BuyOrderID) /\ ~ListedOn(input, "buy", t.BuyOrderID)
    \/ ListedOn(input, "buy", t.SellOrderID) /\ ~ListedOn(input, "sell", t.SellOrderID)

\* a request that is well formed, every order a buy or a sell
CleanRequest ==
    /\ request.json = "ok"
    /\ WellFormed(request.input)
    /\ \A j \in 1..Len(request.input.Snapshot.Orders) :
          ValidSide(request.input.Snapshot.Orders[j])

\* C28: the reference check of ValidateTask takes no account of sides, the
\* engine's lookup does: a well-formed request in which a trade names as its
\* buy order an ID that only a sell order carries (or the other way round) is
\* accepted by ValidateTask; the engine gives that trade an "order not found"
\* failure, returns no error, and HandleTask answers with a result that lists
\* the trade as failed.
C28_CrossSideReferenceAcceptedThenFailed ==
    CleanRequest =>
        \A k \in 1..Len(request.input.Trades) :
            CrossSide(request.input, request.input.Trades[k]) =>
                /\ validated => validateErr = Nil
                /\ k \in Processed =>
                      tradeErrs[k].msg \in {"buy order not found", "sell order not found"}
                /\ pc = "done" => err = Nil
                /\ hpc = "returned" =>
                      /\ handleErr = Nil
                      /\ VerdictProduced
                      /\ ~response.Result.verification_result.Valid
                      /\ \E j \in 1..Len(response.Result.verification_result.FailedTrades) :
                            response.Result.verification_result.FailedTrades[j]
                                = request.input.Trades[k].ID

\* ValidateTask accepted and HandleTask answered a request of a sell order
\* o1 and a buy order o2 with one trade buying from o1: the trade failed with
\* "buy order not found" and no error was returned
C28_Witness ==
    /\ CleanRequest
    /\ validated /\ validateErr = Nil
    /\ hpc = "returned" /\ handleErr = Nil
    /\ Len(request.input.Trades) = 1
    /\ Len(request.input.Snapshot.Orders) = 2
    /\ ListedOn(request.input, "sell", request.input.Trades[1].BuyOrderID)
    /\ ~ListedOn(request.input, "buy", request.input.Trades[1].BuyOrderID)
    /\ ListedOn(request.input, "sell", request.input.Trades[1].SellOrderID)
    /\ tradeErrs[1].msg = "buy order not found"
    /\ err = Nil
    /\ response.Result.verification_result.FailedTrades = << request.input.Trades[1].ID >>

\* ---------------------------------------------------------------- C29
\* several orders of the side carry that ID
SharedID(os, id) == Cardinality({k \in 1..Len(os) : os[k].ID = id}) >= 2

\* the trade names an ID that several buy orders or several sell orders carry
NamesSharedID(t) ==
    SharedID(state.BuyOrders, t.BuyOrderID) \/ SharedID(state.SellOrders, t.SellOrderID)

\* C29: when several orders of a side share the ID a trade names, the price
\* check, the quantity check and the priority check of that trade all go by
\* the first order with that ID in the sorted side, and the priority scan
\* looks at the orders before that position only: the trade's error is a
\* price, quantity or priority failure exactly when that one order makes it
\* so, and the numbers the error reports are that order's.
C29_FirstMatchUsedThroughout ==
    AllSidesValid =>
        \A k \in Processed :
            (Resolves(trades[k]) /\ NamesSharedID(trades[k])) =>
                LET t == trades[k]
                    b == state.BuyOrders[Position(state.BuyOrders, t.BuyOrderID)]
                    s == state.SellOrders[Position(state.SellOrders, t.SellOrderID)]
                    e == tradeErrs[k]
                    priceFails == b.Price < t.Price \/ s.Price > t.Price
                    quantityFails == t.Quantity > b.Quantity \/ t.Quantity > s.Quantity
                    priorityFails == BuySkipped(t) \/ SellSkipped(t)
                IN /\ (e.msg = "price matching failed") <=> priceFails
                   /\ (e.msg = "price matching failed") =>
                         e.nums \in {<< b.Price, t.Price >>, << s.Price, t.Price >>}
                   /\ (e.msg = "quantity constraints failed")
                         <=> (~priceFails /\ quantityFails)
                   /\ (e.msg = "quantity constraints failed") =>
                         e.nums \in {<< t.Quantity, b.Quantity >>,
                                     << t.Quantity, s.Quantity >>}
                   /\ (e.msg = "time priority failed")
                         <=> (~priceFails /\ ~quantityFails /\ priorityFails)
                   /\ (e.msg = "time priority failed") =>
                         /\ e.ids[2] \in {b.ID, s.ID}
                         /\ << e.nums[2], e.nums[4] >> \in
                               {<< b.Price, b.Timestamp >>, << s.Price, s.Timestamp >>}
                   /\ (e = Nil) <=> (~priceFails /\ ~quantityFails /\ ~priorityFails)

\* two buy orders share an ID, the better priced one placed earlier: a trade
\* naming the ID was verified against the first, although against the second
\* it would have been refused for priority
C29_Witness ==
    /\ AllSidesValid /\ Returned /\ Len(trades) = 1
    /\ Len(state.BuyOrders) = 2
    /\ state.BuyOrders[1].ID = state.BuyOrders[2].ID
    /\ trades[1].BuyOrderID = state.BuyOrders[1].ID
    /\ state.BuyOrders[1].Price > state.BuyOrders[2].Price
    /\ state.BuyOrders[1].Timestamp < state.BuyOrders[2].Timestamp
    /\ trades[1].Price <= state.BuyOrders[2].Price
    /\ trades[1].Quantity <= state.BuyOrders[1].Quantity
    /\ tradeErrs[1] = Nil

\* ---------------------------------------------------------------- C30
\* the calls that returned a snapshot and no error, in call order
IsPublished(call) == call.err = Nil
Published == SelectSeq(publishLog, IsPublished)

\* C30: the snapshots one SnapshotPublisher has published successfully carry
\* the sequence numbers 1, 2, 3, ... in publish order: the first carries 1,
\* each later one carries one more than the successful one before it, and
\* none carries 0, whatever calls failed in between.
C30_SequenceNumbersCountPublishes ==
    \A i \in 1..Len(Published) :
        /\ ~Published[i].snapshot.isNil
        /\ Published[i].snapshot.SequenceNumber = i
        /\ Published[i].snapshot.SequenceNumber # 0

\* of four calls the second failed while writing the trades file and the
\* other three published snapshots 1, 2 and 3
C30_Witness ==
    /\ Len(publishLog) = 4
    /\ publishLog[1].err = Nil
    /\ publishLog[2].err.msg = "failed to save trades"
    /\ publishLog[3].err = Nil
    /\ publishLog[4].err = Nil
    /\ publishLog[3].snapshot.SequenceNumber = 2
    /\ publishLog[4].snapshot.SequenceNumber = 3
    /\ sequenceNum = 4

\* ---------------------------------------------------------------- C31
\* C31: the snapshots one SnapshotPublisher has published successfully form
\* a hash chain: the first carries the all-zero hash as PrevHash, and every
\* later one carries hashSnapshot of the successfully published snapshot just
\* before it, whatever calls failed in between.
C31_PublishedSnapshotsFormHashChain ==
    \A i \in 1..Len(Published) :
        Published[i].snapshot.PrevHash =
            IF i = 1 THEN ZeroHash ELSE hashSnapshot(Published[i - 1].snapshot)

\* three calls, the second failing on the trades file after its snapshot
\* file was written: the third call's snapshot is chained to the first's
C31_Witness ==
    /\ Len(publishLog) = 3
    /\ publishLog[1].err = Nil
    /\ publishLog[2].err.msg = "failed to save trades"
    /\ publishLog[3].err = Nil
    /\ publishLog[1].snapshot.PrevHash = ZeroHash
    /\ publishLog[3].snapshot.PrevHash = hashSnapshot(publishLog[1].snapshot)
    /\ publishLog[3].snapshot.PrevHash # ZeroHash
    /\ SnapshotFile(2) \in DOMAIN files

\* ---------------------------------------------------------------- C32
\* the return of the call a step has made
LastReturn == publishLog'[Len(publishLog')]

\* C32: a PublishSnapshot call that returns an error returns no snapshot and
\* leaves sp.sequenceNum and sp.prevHash as they were, and a call that
\* succeeds stamps its snapshot with the sequence number and prevHash the
\* publisher held when it was called: the first success after a failure
\* reuses the number and the hash the failed call had in hand.
C32_FailedPublishKeepsSequenceAndHash ==
    [][Len(publishLog') = Len(publishLog) + 1 =>
          IF LastReturn.err # Nil
          THEN /\ LastReturn.snapshot.isNil
               /\ sequenceNum' = sequenceNum
               /\ prevHash' = prevHash
          ELSE /\ LastReturn.snapshot.SequenceNumber = sequenceNum
               /\ LastReturn.snapshot.PrevHash = prevHash]_vars

\* after one success the calls failed at the merkle root, at the snapshot
\* file and at the trades file; the publisher still holds sequence number 2
\* and the hash of the first snapshot
C32_Witness ==
    /\ Len(publishLog) = 4
    /\ publishLog[1].err = Nil
    /\ {publishLog[k].err.msg : k \in 2..4} =
          {"failed to calculate merkle root", "failed to save snapshot",
           "failed to save trades"}
    /\ sequenceNum = 2
    /\ prevHash = hashSnapshot(publishLog[1].snapshot)

\* ---------------------------------------------------------------- C37
RECURSIVE SumOver(_, _)
\* the sum of f over the set S
SumOver(f, S) ==
    IF S = {} THEN 0
    ELSE LET a == CHOOSE x \in S : TRUE IN f[a] + SumOver(f, S \ {a})

\* the stakes the contract has on record, all operators together
TotalStakes == SumOver(operatorStakes, DOMAIN operatorStakes)

\* C37: after any sequence of registerSettlement, challengeSettlement,
\* resolveChallenge, withdrawStake, freezeSettlement and unfreezeSettlement
\* transactions, the ether the contract holds is at least the sum of all
\* recorded operator stakes, and no recorded stake is negative.
C37_ContractCoversRecordedStakes ==
    /\ balances[Contract] >= TotalStakes
    /\ \A a \in Addresses : operatorStakes[a] >= 0

\* the operator registered with the minimum stake, was slashed by half and
\* withdrew part of the rest: the contract holds exactly what is recorded
C37_Witness ==
    /\ \E id \in DOMAIN settlements : settlements[id].status = "Slashed"
    /\ \E c \in DOMAIN challenges : challenges[c].resolved /\ challenges[c].successful
    /\ operatorStakes["operator"] = 1
    /\ balances[Contract] = 1
    /\ balances["operator"] = InitialBalance - MIN_STAKE + 1
    /\ balances["challenger"] = InitialBalance + 2

\* ---------------------------------------------------------------- C38
\* the settlements that have been Slashed: those a challenge resolved as
\* successful names (resolveChallenge set their status to Slashed)
SlashedOnce ==
    {challenges[c].settlementId :
        c \in {d \in DOMAIN challenges : challenges[d].resolved /\ challenges[d].successful}}

\* C38: Slashed is a terminal status: a settlement that has been Slashed is
\* never Active or Challenged again, whatever transactions follow,
\* freezeSettlement and unfreezeSettlement included.
C38_SlashedIsTerminal ==
    \A id \in SlashedOnce : settlements[id].status \notin {"Active", "Challenged"}

\* ---------------------------------------------------------------- C39
\* resolveChallenge must refuse the challenge ID: it was never created, or
\* its challenge is already resolved, or the settlement it challenges is not
\* Challenged now
ResolveRefused(c) ==
    \/ c \notin DOMAIN challenges
    \/ challenges[c].resolved
    \/ SettlementAt(challenges[c].settlementId).status # "Challenged"

\* C39: a challenge is resolved at most once, and so a settlement is slashed
\* at most once for it: resolveChallenge reverts, changing nothing, for a
\* challenge that is already resolved, for a challenge ID that was never
\* created and whenever the challenged settlement is not Challenged at that
\* moment; when it goes through, the challenge was unresolved and is resolved
\* afterwards.
C39_ChallengeResolvedAtMostOnce ==
    [][\A sender \in Addresses, c \in ChallengeIds, successful \in BOOLEAN :
          resolveChallenge(sender, c, successful) =>
              /\ ResolveRefused(c) =>
                    /\ lastTx'.reverted
                    /\ UNCHANGED << settlements, challenges, operatorStakes, balances >>
              /\ ~lastTx'.reverted =>
                    /\ ~challenges[c].resolved
                    /\ challenges'[c].resolved]_vars

\* a challenge against the operator's settlement was resolved as successful,
\* the minimum stake was slashed once, by half, and a transaction sent after
\* that reverted
C39_Witness ==
    \E id \in DOMAIN settlements, c \in DOMAIN challenges :
        /\ challenges[c].settlementId = id
        /\ challenges[c].resolved /\ challenges[c].successful
        /\ settlements[id].status = "Slashed"
        /\ settlements[id].operator = "operator"
        /\ operatorStakes["operator"] = MIN_STAKE \div 2
        /\ balances[challenges[c].challenger] = InitialBalance + MIN_STAKE \div 2
        /\ lastTx.reverted

\* ---------------------------------------------------------------- C33
\* the task submissions on record in the directory
SubmittedTasks ==
    {files[f][2] : f \in {g \in DOMAIN files : g[1] = "task file" /\ files[g] # Truncated}}
Submitted(n) == \E task \in SubmittedTasks : task.Snapshot.SequenceNumber = n
\* the snapshot file of n is whole
Readable(n) ==
    SnapshotFile(n) \in DOMAIN files /\ files[SnapshotFile(n)] # Truncated

\* C33: when the latest poll processed a snapshot that has no trades file,
\* loading the trades did not abort the processing: unless writing the task
\* file failed, a task with an empty trade list was submitted for it.  A
\* trades file that is there and cannot be parsed does abort the processing.
C33_MissingTradesFileMeansNoTrades ==
    \A n \in lastPoll.processed :
        Readable(n) =>
            /\ TradesFile(n) \notin DOMAIN files =>
                  /\ lastPoll.errs[n].msg # "failed to load trades"
                  /\ lastPoll.errs[n] = Nil =>
                        \E task \in SubmittedTasks :
                            task.Snapshot.SequenceNumber = n /\ task.Trades = << >>
            /\ (TradesFile(n) \in DOMAIN files /\ files[TradesFile(n)] = Truncated) =>
                  lastPoll.errs[n].msg = "failed to load trades"

\* ---------------------------------------------------------------- C34
\* the files of n can be processed: the snapshot file is whole, and so is
\* the trades file if there is one
Processable(n) ==
    /\ Readable(n)
    /\ TradesFile(n) \in DOMAIN files => files[TradesFile(n)] # Truncated

\* C34: while WatchAndSubmit runs, every snapshot that is in the directory
\* gets a verification task sooner or later, in whatever order the files
\* appeared and whether or not an earlier attempt to process it failed.
C34_EverySnapshotGetsItsTask ==
    \A n \in 1..MaxSequence :
        [](Processable(n) => <>(Submitted(n) \/ watcher.pc = "returned"))

C36_WatcherStopsOnlyWithItsContext ==
    /\ [][Tick => watcher'.pc = "select"]_vars
    /\ [](watcher.pc = "select" => ENABLED Tick)
    /\ [](watcher.pc = "returned" =>
             /\ ctxErr \in {Canceled, DeadlineExceeded}
             /\ watcher.err = ctxErr)
    /\ (ctxErr # Nil ~> watcher.pc = "returned")

\* the processing of snapshot 1 failed in one poll, a later poll went on to
\* process snapshot 2, and then the context timed out and WatchAndSubmit
\* returned context.DeadlineExceeded
C36_Witness ==
    /\ timesProcessed[1] = 1 /\ ~Submitted(1)
    /\ lastPoll.before = 1 /\ lastPoll.processed = {2}
    /\ watcher = [pc |-> "returned", err |-> DeadlineExceeded]

====
